---- MODULE Spec2Model ----
(***************************************************************************)
(* Model of librpigrafx2's camera pipeline front end (src/src/mmal.c):     *)
(* the per-camera configuration tables, the frame contexts, and the        *)
(* capture / get / free / render calls working on the buffer pool of the   *)
(* isp -> render connection of one splitter output.                        *)
(*                                                                         *)
(* A buffer header of a connection's pool is, at any time, referenced by   *)
(* zero or more of: conn->pool->queue, the isp output port (conn->out),    *)
(* conn->queue, the render input port (conn->in), and ctx->header.  Each   *)
(* holder is modelled as its own collection so that a header held twice or *)
(* not at all is a state the model can reach.                              *)
(***************************************************************************)
EXTENDS Integers, Sequences, FiniteSets, TLC

(* -------- program constants -------- *)
\* MMAL_PARAMETER_CAMERA_INFO_MAX_CAMERAS
MAX_CAMERAS == 4
NUM_SPLITTER_OUTPUTS == 4
CAMERA_PREVIEW_PORT == 0
CAMERA_CAPTURE_PORT == 2
NULL == 0
MMAL_SUCCESS == 0
MMAL_ENCODING_RGB24 == 1
MMAL_ENCODING_OPAQUE == 2
MMAL_ENCODING_BAYER_SBGGR10P == 3

(* -------- bounds of the model -------- *)
\* number of buffer headers in the pool of one isp -> render connection
PoolSize == 2
\* the ghost counters below saturate at these values
MaxRetries == 2
MaxFrames == 2
\* the largest frame the camera_info component reports for a camera
HwMaxWidth == 3
HwMaxHeight == 2
\* nesting depth of the init / finalize calls
MaxCalled == 2
\* frame calls of a caller that works on two slots
SlotCalls == 2
\* headers of the pool of a raw camera's output port
RawPoolSize == 2
\* headers of the input pool of a raw camera's splitter
SplitterPoolSize == 1
\* the side-information headers the rawcam delivers before one full frame
MaxSideInfo == 1
\* the build has librpicam and librpiraw
IMPL_RAWCAM == TRUE

Cameras == 0 .. (MAX_CAMERAS - 1)
\* the numbers of cameras the camera_info component may report
CameraCounts == {0, 1}
\* the camera numbers callers pass: a camera that is found, and one that is not
CallCameras == {0, 1}
\* the camera numbers rpigrafx_config_camera_frame is called with
CameraNumbers == CallCameras \cup {-1}
Outputs == 0 .. (NUM_SPLITTER_OUTPUTS - 1)
Handles == CallCameras \X Outputs
Buffers == 1 .. PoolSize

VARIABLES
    called,             \* priv_rpigrafx_called.mmal
    num_cameras,        \* static int32_t num_cameras
    cameras_config,     \* static struct cameras_config cameras_config[]
    stages,             \* components created so far (cp_cameras, cp_isps, ...)
    conn_isps_renders,  \* conn_isps_renders[i][j] != NULL
    ctxs,               \* struct callback_context *ctxs[][]
    pool_queue,         \* conn->pool->queue of conn_isps_renders[i][j]
    out_port,           \* headers sent to conn->out (isp output), not yet filled
    conn_queue,         \* conn->queue: filled headers, each with its length
    in_port,            \* headers sent to conn->in (render input), not yet returned
    waiting,            \* the handle whose capture call is blocked in mmal_queue_wait
    crashed,            \* the process dereferenced a null pointer
    faulted,            \* a framework call (trigger, send) has returned an error
    rawcam_pool,        \* headers of the pool of cpw_rawcams[i]->output[0]
    splitter_pool,      \* headers of cpw_splitters[i]->input_pool[0]
    raw_wait,           \* the wait of the raw path the capture call is blocked in
    raw_path,           \* what the raw path of the last capture call has done
    build_pc,           \* where a rpigrafx_finish_config that runs step by step is
    port_format,        \* the formats that build has committed, per port
    enabled,            \* the components that build has enabled
    conns,              \* the connections that build has created, with their flags
    conns_enabled,      \* the connections that build has enabled
    display_region,     \* the region each render's input port has been given
    narmed,             \* how often the last capture call has set the capture trigger
    last_call,          \* the call that returned last, with its return value
    nsent,              \* times the header stored by the last capture was sent to conn->in
    nfreed,             \* times the header stored by the last capture was released by free_frame
    retries,            \* zero-length headers discarded by the capture call that runs or
                        \* returned last
    ncalls,             \* config_camera_frame calls with valid arguments, per camera
    seq                 \* the caller: any call order, or the test program's loop

cfgVars == <<called, num_cameras, cameras_config, stages, conn_isps_renders>>
bufVars == <<pool_queue, out_port, conn_queue, in_port>>
ghostVars == <<last_call, nsent, nfreed, retries, ncalls, seq, narmed>>
rawVars == <<rawcam_pool, splitter_pool, raw_wait, raw_path>>
buildVars == <<build_pc, port_format, enabled, conns, conns_enabled, display_region>>
vars == <<cfgVars, ctxs, bufVars, rawVars, buildVars, waiting, crashed, faulted,
          ghostVars>>

(* -------- helpers -------- *)
Min(a, b) == IF a < b THEN a ELSE b
Max(a, b) == IF a > b THEN a ELSE b

Count(s, b) == Cardinality({i \in DOMAIN s : s[i] = b})
Bufs(q) == [i \in DOMAIN q |-> q[i].buf]

\* number of times header b of handle h sits in a queue or at a port
QueueRefs(h, b) ==
    Count(pool_queue[h], b) + Count(out_port[h], b)
      + Count(Bufs(conn_queue[h]), b) + Count(in_port[h], b)

\* the frame context owns b: it holds it and has not passed it to render
CtxOwns(h, b) ==
    ctxs[h].alloc /\ ctxs[h].header = b /\ ~ctxs[h].is_header_passed_to_render

NumOwners(h, b) == QueueRefs(h, b) + (IF CtxOwns(h, b) THEN 1 ELSE 0)

\* A header linked into two framework queues at once: the queues are intrusive
\* lists, so every later queue operation is undefined.  The model records the
\* state and explores no further from it.
Corrupted == \E h \in Handles : \E b \in Buffers : QueueRefs(h, b) > 1

Running == ~crashed /\ ~Corrupted

(* -------- the caller -------- *)
\* Any call order (mode "any"), or the loop of the test program's main, which
\* after each capture calls get_frame, render_frame and free_frame according
\* to its options -g, -R and -F and leaves at the first failing _check.
\* i is main's loop counter, which the model stops counting at MaxFrames.
SeqAny == [mode |-> "any", get_frame |-> FALSE, no_render |-> FALSE,
           manually_free_frame |-> FALSE, next |-> "capture", i |-> 0]

SeqWants(s, op) ==
    CASE op = "get"    -> s.get_frame
      [] op = "render" -> ~s.no_render
      [] op = "free"   -> s.manually_free_frame
      [] OTHER         -> TRUE

\* the call that follows op in one iteration of the loop
SeqAfter(s, op) ==
    CASE op = "capture" ->
            IF SeqWants(s, "get") THEN "get"
            ELSE IF SeqWants(s, "render") THEN "render"
            ELSE IF SeqWants(s, "free") THEN "free" ELSE "capture"
      [] op = "get" ->
            IF SeqWants(s, "render") THEN "render"
            ELSE IF SeqWants(s, "free") THEN "free" ELSE "capture"
      [] op = "render" ->
            IF SeqWants(s, "free") THEN "free" ELSE "capture"
      [] OTHER -> "capture"

Allowed(op) ==
    \/ seq.mode = "any"
    \/ seq.mode = "count" /\ seq.i < SlotCalls
    \/ seq.mode = "test" /\ seq.next = op

\* the caller after op returned ret; checked is whether main wraps op in _check
Advance(op, ret, checked) ==
    IF seq.mode = "any" THEN seq
    ELSE IF seq.mode = "count" THEN [seq EXCEPT !.i = seq.i + 1]
    ELSE IF checked /\ ret # 0 THEN [seq EXCEPT !.next = "exit"]
    ELSE [seq EXCEPT !.next = SeqAfter(seq, op),
                     !.i = IF SeqAfter(seq, op) = "capture"
                           THEN Min(seq.i + 1, MaxFrames) ELSE seq.i]

(* -------- the handle -------- *)
\* the caller after op returned, for a caller that stops after SlotCalls calls
SeqCount == [mode |-> "count", get_frame |-> FALSE, no_render |-> FALSE,
             manually_free_frame |-> FALSE, next |-> "any", i |-> 0]

\* mutant: the connection is looked up by the camera number alone
M_conn_of(fcp) == <<fcp[1], 0>>

\* the isp -> render connection a frame call works on:
\* conn_isps_renders[fcp->camera_number][fcp->splitter_output_port_index]
conn_of(fcp) == <<fcp[1], fcp[2]>>

(* -------- rpigrafx_free_frame -------- *)
\* mutant: the early return forgets the passed-to-render flag
M_free_frame_is_noop(ctx) == ctx.header = NULL

\* the early return of rpigrafx_free_frame
free_frame_is_noop(ctx) ==
    ctx.header = NULL \/ ctx.is_header_passed_to_render

\* the context rpigrafx_free_frame leaves
free_frame_ctx(ctx) ==
    IF free_frame_is_noop(ctx) THEN ctx
    ELSE [ctx EXCEPT !.header = NULL, !.is_header_passed_to_render = FALSE]

\* mutant: the header is forgotten without being released
M_free_frame_released(ctx) == <<>>

\* the headers rpigrafx_free_frame hands to mmal_buffer_header_release
free_frame_released(ctx) ==
    IF free_frame_is_noop(ctx) THEN <<>> ELSE <<ctx.header>>

rpigrafx_free_frame(h) ==
    /\ Running /\ waiting = {} /\ Allowed("free")
    /\ ctxs[h].alloc
    /\ ctxs' = [ctxs EXCEPT ![h] = free_frame_ctx(ctxs[h])]
    /\ pool_queue' = [pool_queue EXCEPT
                        ![h] = pool_queue[h] \o free_frame_released(ctxs[h])]
    /\ nfreed' = [nfreed EXCEPT ![h] = nfreed[h] + Len(free_frame_released(ctxs[h]))]
    /\ last_call' = [op |-> "free", h |-> h, ret |-> 0, err |-> "none"]
    /\ seq' = Advance("free", 0, FALSE)
    /\ retries' = 0
    /\ UNCHANGED <<narmed, buildVars, rawVars, cfgVars, out_port, conn_queue, in_port, waiting, crashed, faulted,
                   nsent, ncalls>>

(* -------- rpigrafx_get_frame -------- *)
\* mutant: the held header's data pointer is never returned
M_get_frame_result(ctx) == NULL

\* the pointer rpigrafx_get_frame returns; header->data of header b is b
get_frame_result(ctx) ==
    IF ctx.status # MMAL_SUCCESS THEN NULL
    ELSE IF ctx.header = NULL THEN NULL
    ELSE ctx.header

rpigrafx_get_frame(h) ==
    /\ Running /\ waiting = {} /\ Allowed("get")
    /\ ctxs[h].alloc
    /\ last_call' = [op |-> "get", h |-> h, ret |-> get_frame_result(ctxs[h]),
                     err |-> "none"]
    /\ seq' = Advance("get", 0, FALSE)
    /\ retries' = 0
    /\ UNCHANGED <<narmed, buildVars, rawVars, cfgVars, ctxs, bufVars, waiting, crashed, faulted,
                   nsent, nfreed, ncalls>>

(* -------- configuration tables -------- *)
IspZero == [width |-> 0, height |-> 0, encoding |-> 0,
            is_zero_copy_rendering |-> FALSE]

\* a zero-initialised MMAL_DISPLAYREGION_T
RegionZero == [fullscreen |-> FALSE, x |-> 0, y |-> 0, width |-> 0, height |-> 0,
               layer |-> 0, set |-> {}]

\* a zero-initialised entry of the static cameras_config table
CfgZero == [is_used |-> FALSE, width |-> 0, height |-> 0,
            max_width |-> 0, max_height |-> 0,
            camera_output_port_index |-> 0,
            use_camera_capture_port |-> FALSE,
            next_output_idx |-> 0,
            isp |-> [j \in Outputs |-> IspZero],
            render |-> [j \in Outputs |-> [region |-> RegionZero]],
            is_rawcam |-> FALSE]

\* ctxs[i][j] == NULL
NoCtx == [alloc |-> FALSE, status |-> MMAL_SUCCESS, header |-> NULL,
          is_header_passed_to_render |-> FALSE]

\* the context rpigrafx_config_camera_frame allocates
NewCtx == [alloc |-> TRUE, status |-> MMAL_SUCCESS, header |-> NULL,
           is_header_passed_to_render |-> FALSE]

NoCall == [op |-> "none", h |-> <<0, 0>>, ret |-> 0, err |-> "none"]

\* the arguments callers pass
Widths == {HwMaxWidth, HwMaxWidth + 1}
Heights == {HwMaxHeight, HwMaxHeight + 1}
Encodings == {MMAL_ENCODING_RGB24}
ZeroCopyFlags == {TRUE}
CameraPorts == {"PREVIEW", "CAPTURE", "UNKNOWN"}

(* -------- rpigrafx_config_camera_port -------- *)
config_camera_port_known(camera_port) == camera_port \in {"PREVIEW", "CAPTURE"}

M_config_camera_port_cfg(cfg, camera_port) ==
    CASE camera_port = "PREVIEW" ->
            [cfg EXCEPT !.camera_output_port_index = CAMERA_PREVIEW_PORT]
      [] camera_port = "CAPTURE" ->
            [cfg EXCEPT !.camera_output_port_index = CAMERA_CAPTURE_PORT]
      [] OTHER -> cfg

config_camera_port_cfg(cfg, camera_port) ==
    CASE camera_port = "PREVIEW" ->
            [cfg EXCEPT !.camera_output_port_index = CAMERA_PREVIEW_PORT,
                        !.use_camera_capture_port = FALSE]
      [] camera_port = "CAPTURE" ->
            [cfg EXCEPT !.camera_output_port_index = CAMERA_CAPTURE_PORT,
                        !.use_camera_capture_port = TRUE]
      [] OTHER -> cfg

rpigrafx_config_camera_port(i, camera_port) ==
    /\ Running /\ waiting = {} /\ stages = {}
    /\ cameras_config' = [cameras_config EXCEPT
                            ![i] = config_camera_port_cfg(cameras_config[i], camera_port)]
    /\ last_call' = [op |-> "config_camera_port", h |-> <<i, 0>>,
                     ret |-> IF config_camera_port_known(camera_port) THEN 0 ELSE 1,
                     err |-> IF config_camera_port_known(camera_port)
                             THEN "none" ELSE "port"]
    /\ UNCHANGED <<narmed, buildVars, rawVars, called, num_cameras, stages, conn_isps_renders, ctxs, bufVars,
                   waiting, crashed, faulted, nsent, nfreed, retries, seq, ncalls>>

(* -------- rpigrafx_config_camera_frame_render -------- *)
\* the local variable region
display_region_of(is_fullscreen, x, y, width, height, layer) ==
    [fullscreen |-> is_fullscreen, x |-> x, y |-> y, width |-> width,
     height |-> height, layer |-> layer,
     set |-> {"FULLSCREEN", "DEST_RECT", "LAYER"}]

\* the memcpy into cfg->render[fcp->splitter_output_port_index].region
config_camera_frame_render_cfg(cfg, j, region) ==
    [cfg EXCEPT !.render[j].region = region]

\* the regions callers pass: the whole screen, and a window
RenderArgs ==
    {[is_fullscreen |-> TRUE, x |-> 0, y |-> 0, width |-> 0, height |-> 0,
      layer |-> 0],
     [is_fullscreen |-> FALSE, x |-> 1, y |-> 1, width |-> 2, height |-> 1,
      layer |-> 1]}

rpigrafx_config_camera_frame_render(is_fullscreen, x, y, width, height, layer, fcp) ==
    /\ Running /\ waiting = {} /\ stages = {} /\ build_pc.phase = "idle"
    /\ ctxs[fcp].alloc
    /\ cameras_config' =
          [cameras_config EXCEPT
             ![fcp[1]] = config_camera_frame_render_cfg(
                            cameras_config[fcp[1]], fcp[2],
                            display_region_of(is_fullscreen, x, y, width, height,
                                              layer))]
    /\ last_call' = [op |-> "config_camera_frame_render", h |-> fcp, ret |-> 0,
                     err |-> "none"]
    /\ UNCHANGED <<narmed, buildVars, rawVars, called, num_cameras, stages,
                   conn_isps_renders, ctxs, bufVars, waiting, crashed, faulted,
                   nsent, nfreed, retries, seq, ncalls>>

(* -------- rpigrafx_config_rawcam -------- *)
\* the values of nbits_of_raw_from_camera the switch accepts
RawBits == {8, 10, 12}
\* the values callers pass
RawBitsArgs == {10, 14}

config_rawcam_ret(nbits) == IF IMPL_RAWCAM /\ nbits \in RawBits THEN 0 ELSE 1

config_rawcam_cfg(cfg, nbits) ==
    IF config_rawcam_ret(nbits) = 0 THEN [cfg EXCEPT !.is_rawcam = TRUE] ELSE cfg

rpigrafx_config_rawcam(h, nbits) ==
    /\ Running /\ waiting = {} /\ stages = {}
    /\ ctxs[h].alloc
    /\ cameras_config' = [cameras_config EXCEPT
                            ![h[1]] = config_rawcam_cfg(cameras_config[h[1]], nbits)]
    /\ last_call' = [op |-> "config_rawcam", h |-> h,
                     ret |-> config_rawcam_ret(nbits),
                     err |-> IF config_rawcam_ret(nbits) = 0 THEN "none" ELSE "nbits"]
    /\ UNCHANGED <<narmed, buildVars, rawVars, called, num_cameras, stages, conn_isps_renders, ctxs, bufVars,
                   waiting, crashed, faulted, nsent, nfreed, retries, seq, ncalls>>

(* -------- rpigrafx_config_camera_frame -------- *)
\* the checks of the arguments, in the order of the code
exceeds_num_cameras(camera_number, n) == camera_number >= n
\* mutant: the comparison is off by one
M_exceeds_max(requested, maximum) == requested > maximum + 1
exceeds_max(requested, maximum) == requested > maximum
\* mutant: the last splitter output is not kept back
M_too_many_clients(next_output_idx) == next_output_idx = NUM_SPLITTER_OUTPUTS
too_many_clients(next_output_idx) == next_output_idx = NUM_SPLITTER_OUTPUTS - 1

\* camera_number is an int32_t compared only against num_cameras: a negative
\* value passes the test, and cfg then points before cameras_config[0].  What
\* the call reads there is whatever the build placed before the table, so it
\* can end in any of the ways a call that passed the test can end.
WildOutcomes == {"width", "height", "too_many", "malloc", "none"}

\* the error rpigrafx_config_camera_frame ends with ("none": it returns 0)
config_camera_frame_err(camera_number, width, height, malloc_ok, wild) ==
    IF exceeds_num_cameras(camera_number, num_cameras) THEN "camera_number"
    ELSE IF camera_number \notin Cameras THEN wild
    ELSE LET cfg == cameras_config[camera_number] IN
         IF exceeds_max(width, cfg.max_width) THEN "width"
         ELSE IF exceeds_max(height, cfg.max_height) THEN "height"
         ELSE IF too_many_clients(cfg.next_output_idx) THEN "too_many"
         ELSE IF ~malloc_ok THEN "malloc"
         ELSE "none"

\* mutant: the output is stored but the output index is not advanced
M_config_camera_frame_cfg(cfg, err, width, height, encoding, zero_copy) ==
    IF err \in {"camera_number", "width", "height"} THEN cfg
    ELSE IF err = "too_many" THEN [cfg EXCEPT !.is_used = TRUE]
    ELSE [cfg EXCEPT !.is_used = TRUE,
                     !.isp[cfg.next_output_idx] =
                         [width |-> width, height |-> height,
                          encoding |-> encoding,
                          is_zero_copy_rendering |-> zero_copy]]

\* the table entry rpigrafx_config_camera_frame leaves when it ends with err
config_camera_frame_cfg(cfg, err, width, height, encoding, zero_copy) ==
    CASE err \in {"camera_number", "width", "height"} -> cfg
      [] err = "too_many" -> [cfg EXCEPT !.is_used = TRUE]
      [] OTHER ->
            [cfg EXCEPT !.is_used = TRUE,
                        !.next_output_idx = cfg.next_output_idx + 1,
                        !.isp[cfg.next_output_idx] =
                            [width |-> width, height |-> height,
                             encoding |-> encoding,
                             is_zero_copy_rendering |-> zero_copy]]

rpigrafx_config_camera_frame(camera_number, width, height, encoding, zero_copy) ==
    /\ Running /\ waiting = {} /\ stages = {}
    /\ \E wild \in (IF camera_number \in Cameras THEN {"none"} ELSE WildOutcomes),
          malloc_ok \in (IF /\ camera_number \in Cameras
                            /\ config_camera_frame_err(camera_number, width, height,
                                                       TRUE, "none") = "none"
                         THEN BOOLEAN ELSE {TRUE}) :
         LET err == config_camera_frame_err(camera_number, width, height,
                                            malloc_ok, wild)
             tbl == camera_number \in Cameras
             idx == IF tbl THEN cameras_config[camera_number].next_output_idx ELSE 0
         IN  /\ cameras_config' =
                   IF tbl
                   THEN [cameras_config EXCEPT ![camera_number] =
                            config_camera_frame_cfg(cameras_config[camera_number],
                                                    err, width, height, encoding,
                                                    zero_copy)]
                   ELSE cameras_config
             /\ ctxs' = IF tbl /\ err = "none"
                        THEN [ctxs EXCEPT ![<<camera_number, idx>>] = NewCtx]
                        ELSE ctxs
             /\ ncalls' = IF tbl /\ err \notin {"camera_number", "width", "height"}
                          THEN [ncalls EXCEPT ![camera_number] =
                                   Min(ncalls[camera_number] + 1, NUM_SPLITTER_OUTPUTS)]
                          ELSE ncalls
             /\ last_call' = [op |-> "config_camera_frame",
                              h |-> <<camera_number,
                                      IF err = "none" THEN idx ELSE 0>>,
                              ret |-> IF err = "none" THEN 0 ELSE 1,
                              err |-> err]
    /\ UNCHANGED <<narmed, buildVars, rawVars, called, num_cameras, stages, conn_isps_renders, bufVars,
                   waiting, crashed, faulted, nsent, nfreed, retries, seq>>

(* -------- priv_rpigrafx_mmal_init / priv_rpigrafx_mmal_finalize -------- *)
\* the first loop of priv_rpigrafx_mmal_init on one table entry
init_reset_cfg(cfg) ==
    config_camera_port_cfg([cfg EXCEPT !.is_used = FALSE, !.is_rawcam = FALSE,
                                       !.next_output_idx = 0],
                           "PREVIEW")

\* the table entry after the camera_info query succeeded
init_info_cfg(cfg, i, n) ==
    IF i < n THEN [cfg EXCEPT !.max_width = HwMaxWidth, !.max_height = HwMaxHeight]
    ELSE [cfg EXCEPT !.max_width = 0, !.max_height = 0]

\* query: how far the camera_info query gets
\*   "create", "get": the component or the parameter fails, nothing is stored
\*   "ok", "destroy": n cameras are reported (and destroying the component
\*   fails); with n <= 0 only num_cameras is stored
InfoOutcomes == {"create", "get", "ok", "destroy"}

\* the error priv_rpigrafx_mmal_init ends with ("none": it returns 0)
init_err(query, n) ==
    IF query \in {"create", "get"} THEN query
    ELSE IF n <= 0 THEN "no_cameras"
    ELSE IF query = "destroy" THEN query ELSE "none"

priv_rpigrafx_mmal_init(query, n) ==
    /\ Running /\ waiting = {} /\ stages = {}
    /\ called < MaxCalled
    /\ called' = called + 1
    /\ IF called # 0
       THEN /\ UNCHANGED <<num_cameras, cameras_config, ncalls>>
            /\ last_call' = [op |-> "init", h |-> <<0, 0>>, ret |-> 0, err |-> "none"]
       ELSE /\ num_cameras' = IF query \in {"create", "get"} THEN num_cameras ELSE n
            /\ cameras_config' =
                  [i \in Cameras |->
                     IF init_err(query, n) \in {"none", "destroy"}
                     THEN init_info_cfg(init_reset_cfg(cameras_config[i]), i, n)
                     ELSE init_reset_cfg(cameras_config[i])]
            /\ ncalls' = [i \in Cameras |-> 0]
            /\ last_call' = [op |-> "init", h |-> <<0, 0>>,
                             ret |-> IF init_err(query, n) = "none" THEN 0 ELSE 1,
                             err |-> init_err(query, n)]
    /\ UNCHANGED <<narmed, buildVars, rawVars, stages, conn_isps_renders, ctxs, bufVars, waiting, crashed, faulted,
                   nsent, nfreed, retries, seq>>

finalize_cfg(cfg) ==
    [cfg EXCEPT !.width = -1, !.height = -1, !.max_width = -1, !.max_height = -1,
                !.next_output_idx = 0]

priv_rpigrafx_mmal_finalize ==
    /\ Running /\ waiting = {} /\ stages = {}
    /\ called > -MaxCalled
    /\ called' = called - 1
    /\ IF called # 1
       THEN UNCHANGED <<cameras_config, ncalls>>
       ELSE /\ cameras_config' = [i \in Cameras |-> finalize_cfg(cameras_config[i])]
            /\ ncalls' = [i \in Cameras |-> 0]
    /\ last_call' = [op |-> "finalize", h |-> <<0, 0>>, ret |-> 0, err |-> "none"]
    /\ UNCHANGED <<narmed, buildVars, rawVars, num_cameras, stages, conn_isps_renders, ctxs, bufVars, waiting,
                   crashed, faulted, nsent, nfreed, retries, seq>>

(* -------- rpigrafx_finish_config -------- *)
RECURSIVE max_over(_, _, _)
\* MMAL_MAX over field f of isp[0 .. len-1], starting from 0
max_over(isp, len, f) ==
    IF len = 0 THEN 0
    ELSE Max(max_over(isp, len - 1, f),
             IF f = "width" THEN isp[len - 1].width ELSE isp[len - 1].height)

\* the cameras rpigrafx_finish_config builds a graph for
UsedCameras(cfgs, n) == {i \in Cameras : i < n /\ cfgs[i].is_used}

\* the components the setup_cp_* functions create for camera i
camera_stages(cfg, i) ==
    {IF cfg.is_rawcam THEN <<"rawcam", i, 0>> ELSE <<"camera", i, 0>>,
     <<"splitter", i, 0>>}
      \cup (IF cfg.use_camera_capture_port THEN {<<"null", i, 0>>} ELSE {})
      \cup {<<"isp", i, j>> : j \in 0 .. (cfg.next_output_idx - 1)}
      \cup {<<"render", i, j>> : j \in 0 .. (cfg.next_output_idx - 1)}

\* mutant: a raw camera's frames are not magnified
M_rawcam_mag(cfg, max_width, max_height) == 1

\* the magnification of an IMX219 raw camera; the division is C's, and the
\* callers of the model request no zero-sized frame
rawcam_mag(cfg, max_width, max_height) ==
    IF ~(IMPL_RAWCAM /\ cfg.is_rawcam) \/ max_width = 0 \/ max_height = 0 THEN 1
    ELSE Min(cfg.max_width \div max_width, cfg.max_height \div max_height)

finish_config_cfg(cfg) ==
    LET max_width == max_over(cfg.isp, cfg.next_output_idx, "width")
        max_height == max_over(cfg.isp, cfg.next_output_idx, "height")
    IN [cfg EXCEPT !.width = max_width * rawcam_mag(cfg, max_width, max_height),
                   !.height = max_height * rawcam_mag(cfg, max_width, max_height)]

\* connect_ports reads cp_cameras[i]->output[CAMERA_PREVIEW_PORT] for a camera
\* on its capture port; for a raw camera setup_cp_camera_rawcam has created
\* cpw_rawcams[i] and cp_cameras[i] is still NULL
connect_ports_null_camera(cfg) == cfg.use_camera_capture_port /\ cfg.is_rawcam

\* the cameras rpigrafx_finish_config finishes: all the used ones, or those
\* before the first whose connect_ports dereferences the null camera
FinishedCameras(cfgs, n) ==
    {i \in UsedCameras(cfgs, n) :
       \A k \in UsedCameras(cfgs, n) : k <= i => ~connect_ports_null_camera(cfgs[k])}

\* the cameras whose components the setup_cp_* functions have created
SetUpCameras(cfgs, n) ==
    {i \in UsedCameras(cfgs, n) :
       \A k \in UsedCameras(cfgs, n) : k < i => ~connect_ports_null_camera(cfgs[k])}

\* the pools mmal_wrapper_port_enable allocates: setup_cp_camera_rawcam sends
\* every header of the rawcam pool to the rawcam output, the headers of the
\* splitter's input pool stay on its queue
RawZero == [queue |-> 0, port |-> 0, lost |-> 0]
rawcam_pool_enabled == [queue |-> 0, port |-> RawPoolSize, lost |-> 0]
splitter_pool_enabled == [queue |-> SplitterPoolSize, port |-> 0, lost |-> 0]

\* the handles whose isp -> render connection connect_ports creates
BuiltHandles(cfgs, n) ==
    {h \in Handles : h[1] \in FinishedCameras(cfgs, n) /\ h[2] < cfgs[h[1]].next_output_idx}

\* the last loop of connect_ports: every pool header is sent to conn->out
seeded_out_port == [b \in Buffers |-> b]

rpigrafx_finish_config ==
    /\ Running /\ waiting = {} /\ stages = {}
    /\ UsedCameras(cameras_config, num_cameras) # {}
    /\ cameras_config' =
          [i \in Cameras |->
             IF i \in SetUpCameras(cameras_config, num_cameras)
             THEN finish_config_cfg(cameras_config[i]) ELSE cameras_config[i]]
    /\ stages' = UNION {camera_stages(cameras_config[i], i) :
                           i \in SetUpCameras(cameras_config, num_cameras)}
    /\ rawcam_pool' =
          [i \in Cameras |->
             IF i \in SetUpCameras(cameras_config, num_cameras)
                  /\ cameras_config[i].is_rawcam
             THEN rawcam_pool_enabled ELSE rawcam_pool[i]]
    /\ splitter_pool' =
          [i \in Cameras |->
             IF i \in SetUpCameras(cameras_config, num_cameras)
                  /\ cameras_config[i].is_rawcam
             THEN splitter_pool_enabled ELSE splitter_pool[i]]
    /\ IF FinishedCameras(cameras_config, num_cameras)
            = UsedCameras(cameras_config, num_cameras)
       THEN /\ last_call' = [op |-> "finish_config", h |-> <<0, 0>>, ret |-> 0,
                             err |-> "none"]
            /\ UNCHANGED crashed
       ELSE /\ crashed' = TRUE
            /\ UNCHANGED last_call
    /\ conn_isps_renders' =
          [h \in Handles |-> h \in BuiltHandles(cameras_config, num_cameras)]
    /\ out_port' = [h \in Handles |->
                      IF h \in BuiltHandles(cameras_config, num_cameras)
                      THEN seeded_out_port ELSE <<>>]
    /\ UNCHANGED <<narmed, buildVars, called, num_cameras, ctxs, pool_queue, conn_queue, in_port,
                   waiting, raw_wait, raw_path, faulted, nsent, nfreed, retries, seq,
                   ncalls>>

(* -------- the build, step by step -------- *)
VCOS_ALIGN_UP(v, n) == ((v + n - 1) \div n) * n

NoFmt == [encoding |-> 0, width |-> 0, height |-> 0,
          crop_width |-> 0, crop_height |-> 0]

\* the format config_port_crop commits on a port
config_port_crop(encoding, actual_width, actual_height, crop_width, crop_height) ==
    [encoding |-> encoding,
     width |-> VCOS_ALIGN_UP(actual_width, 32),
     height |-> VCOS_ALIGN_UP(actual_height, 16),
     crop_width |-> crop_width, crop_height |-> crop_height]

\* the format config_port commits on a port
config_port(encoding, width, height) ==
    config_port_crop(encoding, width, height, width, height)

\* mutant: the crop is the upstream size
M_splitter_crop(output_width, width) == width

\* output_width * (width / output_width) of setup_cp_splitter and setup_cp_isp,
\* for output_width # 0.  With output_width = 0 the C expression divides by
\* zero: the step that evaluates it either traps or goes on with the product
\* 0 * q = 0 (crop_divides_by_zero marks the step).
splitter_crop(output_width, width) ==
    IF output_width = 0 THEN 0 ELSE output_width * (width \div output_width)

crop_divides_by_zero(output_width, output_height) ==
    output_width = 0 \/ output_height = 0

\* One step of the build: a framework call whose status the code tests.
\*   op: "create" a component, get a "port", set a "param", "port_enable",
\*       commit a "format", "enable" a component, "rawcam_seed" (send the
\*       rawcam's pool to its output; the status is not tested), "connect",
\*       "conn_enable", "seed" (send one pool header to conn->out)
\*   id: the component or connection;  port: the port of the component
\*   fmt: the format committed;  flag: the connection's flags, the parameter
\*   div0: the step's arguments divide by zero
Step(op, id, port, fmt, flag, div0) ==
    [op |-> op, id |-> id, port |-> port, fmt |-> fmt, flag |-> flag, div0 |-> div0]

Call(op, id, port, flag) == Step(op, id, port, NoFmt, flag, FALSE)
Format(id, port, fmt) == Step("format", id, port, fmt, "", FALSE)

RECURSIVE ForEach(_)
\* the steps of a for (j = 0; j < len; j ++) loop: body[j + 1] is its
\* iteration j
ForEach(body) ==
    IF body = <<>> THEN <<>> ELSE Head(body) \o ForEach(Tail(body))

setup_cp_camera_steps(cfg, i, width, height) ==
    LET c == <<"camera", i, 0>> IN
    <<Call("create", c, <<"none", 0>>, ""),
      Call("port", c, <<"control", 0>>, ""),
      Call("param", c, <<"control", 0>>, "camera_num"),
      Call("port_enable", c, <<"control", 0>>, "")>>
    \o (IF cfg.use_camera_capture_port
        THEN <<Call("port", c, <<"out", CAMERA_PREVIEW_PORT>>, ""),
               Format(c, <<"out", CAMERA_PREVIEW_PORT>>,
                      config_port(MMAL_ENCODING_OPAQUE, width, height)),
               Call("param", c, <<"out", CAMERA_PREVIEW_PORT>>, "zero_copy")>>
        ELSE <<>>)
    \o <<Call("port", c, <<"out", cfg.camera_output_port_index>>, ""),
         Format(c, <<"out", cfg.camera_output_port_index>>,
                config_port(MMAL_ENCODING_RGB24, width, height)),
         Call("param", c, <<"out", cfg.camera_output_port_index>>, "zero_copy"),
         Call("enable", c, <<"none", 0>>, "")>>

setup_cp_camera_rawcam_steps(cfg, i, width, height) ==
    LET c == <<"rawcam", i, 0>> IN
    <<Call("create", c, <<"none", 0>>, ""),
      Call("param", c, <<"none", 0>>, "rpicam_imx219_open"),
      Call("port", c, <<"out", 0>>, ""),
      Format(c, <<"out", 0>>,
             config_port(MMAL_ENCODING_BAYER_SBGGR10P, width, height)),
      Call("param", c, <<"out", 0>>, "get_rx_cfg"),
      Call("param", c, <<"out", 0>>, "set_rx_cfg"),
      Call("port_enable", c, <<"out", 0>>, "payload_allocate"),
      Call("rawcam_seed", c, <<"out", 0>>, "")>>

setup_cp_null_steps(i, width, height) ==
    LET c == <<"null", i, 0>> IN
    <<Call("create", c, <<"none", 0>>, ""),
      Call("port", c, <<"control", 0>>, ""),
      Call("port_enable", c, <<"control", 0>>, ""),
      Call("port", c, <<"in", 1>>, ""),
      Format(c, <<"in", 1>>, config_port(MMAL_ENCODING_OPAQUE, width, height)),
      Call("param", c, <<"in", 1>>, "zero_copy"),
      Call("enable", c, <<"none", 0>>, "")>>

\* the crop format of splitter output j and of the input of isp j
crop_format(cfg, j, width, height) ==
    config_port_crop(MMAL_ENCODING_RGB24, width, height,
                     splitter_crop(cfg.isp[j].width, width),
                     splitter_crop(cfg.isp[j].height, height))

crop_step(cfg, id, port, j, width, height) ==
    Step("format", id, port, crop_format(cfg, j, width, height), "",
         crop_divides_by_zero(cfg.isp[j].width, cfg.isp[j].height))

setup_cp_splitter_steps(cfg, i, len, width, height) ==
    LET c == <<"splitter", i, 0>>
        output(j) ==
            <<Call("port", c, <<"out", j>>, ""),
              crop_step(cfg, c, <<"out", j>>, j, width, height),
              Call("param", c, <<"out", j>>, "zero_copy")>>
    IN
    <<Call("create", c, <<"none", 0>>, ""),
      Call("port", c, <<"control", 0>>, "")>>
    \o (IF ~cfg.is_rawcam THEN <<Call("port_enable", c, <<"control", 0>>, "")>>
        ELSE <<>>)
    \o <<Call("port", c, <<"in", 0>>, ""),
         Format(c, <<"in", 0>>, config_port(MMAL_ENCODING_RGB24, width, height))>>
    \o (IF ~cfg.is_rawcam THEN <<Call("param", c, <<"in", 0>>, "zero_copy")>>
        ELSE <<Call("port_enable", c, <<"in", 0>>, "payload_allocate")>>)
    \o ForEach([n \in 1 .. len |-> output(n - 1)])
    \o (IF ~cfg.is_rawcam THEN <<Call("enable", c, <<"none", 0>>, "")>> ELSE <<>>)

\* mutant: the isp output gets the size of the shared upstream stages
M_isp_output_format(cfg, j, width, height) ==
    config_port(cfg.isp[j].encoding, width, height)

\* the format setup_cp_isp commits on the isp's output and setup_cp_render on
\* the render's input
isp_output_format(cfg, j, width, height) ==
    config_port(cfg.isp[j].encoding, cfg.isp[j].width, cfg.isp[j].height)

setup_cp_isp_steps(cfg, i, j, width, height) ==
    LET c == <<"isp", i, j>> IN
    <<Call("create", c, <<"none", 0>>, ""),
      Call("port", c, <<"control", 0>>, ""),
      Call("port_enable", c, <<"control", 0>>, ""),
      Call("port", c, <<"in", 0>>, ""),
      crop_step(cfg, c, <<"in", 0>>, j, width, height),
      Call("param", c, <<"in", 0>>, "zero_copy"),
      Call("port", c, <<"out", 0>>, ""),
      Format(c, <<"out", 0>>, isp_output_format(cfg, j, width, height)),
      Call("param", c, <<"out", 0>>, "zero_copy"),
      Call("enable", c, <<"none", 0>>, "")>>

setup_cp_render_steps(cfg, i, j) ==
    LET c == <<"render", i, j>> IN
    <<Call("create", c, <<"none", 0>>, ""),
      Call("port", c, <<"control", 0>>, ""),
      Call("port_enable", c, <<"control", 0>>, ""),
      Call("port", c, <<"in", 0>>, ""),
      Format(c, <<"in", 0>>,
             config_port(cfg.isp[j].encoding, cfg.isp[j].width, cfg.isp[j].height)),
      Call("param", c, <<"in", 0>>, "display_region"),
      Call("param", c, <<"in", 0>>, "zero_copy"),
      Call("enable", c, <<"none", 0>>, "")>>

\* mutant: the upstream connection of the slot is enabled first
M_enable_slot_steps(i, j) ==
    <<Call("conn_enable", <<"splitter_isp", i, j>>, <<"none", 0>>, ""),
      Call("conn_enable", <<"isp_render", i, j>>, <<"none", 0>>, "")>>

\* the body of the loop of connect_ports that enables the connections of slot j
enable_slot_steps(i, j) ==
    <<Call("conn_enable", <<"isp_render", i, j>>, <<"none", 0>>, ""),
      Call("conn_enable", <<"splitter_isp", i, j>>, <<"none", 0>>, "")>>

\* the steps of connect_ports; a "seed" step is the loop that sends the
\* headers it finds on conn->pool->queue, one header at a time
connect_ports_steps(cfg, i, len) ==
    LET create(j) ==
            <<Call("connect", <<"splitter_isp", i, j>>, <<"none", 0>>, "TUNNELLING"),
              Call("connect", <<"isp_render", i, j>>, <<"none", 0>>, "0")>>
        enable(j) == enable_slot_steps(i, j)
        send(j) == <<Call("seed", <<"isp_render", i, j>>, <<"none", 0>>, "")>>
    IN
    (IF cfg.use_camera_capture_port
     THEN <<Call("connect", <<"camera_null", i, 0>>, <<"none", 0>>, "TUNNELLING")>>
     ELSE <<>>)
    \o (IF ~cfg.is_rawcam
        THEN <<Call("connect", <<"camera_splitter", i, 0>>, <<"none", 0>>, "TUNNELLING")>>
        ELSE <<>>)
    \o ForEach([n \in 1 .. len |-> create(n - 1)])
    \o ForEach([n \in 1 .. len |-> enable(n - 1)])
    \o (IF cfg.use_camera_capture_port
        THEN <<Call("conn_enable", <<"camera_null", i, 0>>, <<"none", 0>>, "")>>
        ELSE <<>>)
    \o (IF ~cfg.is_rawcam
        THEN <<Call("conn_enable", <<"camera_splitter", i, 0>>, <<"none", 0>>, "")>>
        ELSE <<>>)
    \o ForEach([n \in 1 .. len |-> send(n - 1)])

\* mutant: every camera gets a null sink
M_needs_cp_null(cfg) == TRUE

\* if (cfg->use_camera_capture_port) setup_cp_null(...)
needs_cp_null(cfg) == cfg.use_camera_capture_port

\* the body of the loop of rpigrafx_finish_config for camera i, after
\* cfg->width and cfg->height are set
finish_config_steps(cfg, i) ==
    LET len == cfg.next_output_idx
        slot(j) == setup_cp_isp_steps(cfg, i, j, cfg.width, cfg.height)
                     \o setup_cp_render_steps(cfg, i, j)
    IN
    (IF cfg.is_rawcam
     THEN setup_cp_camera_rawcam_steps(cfg, i, cfg.width, cfg.height)
     ELSE setup_cp_camera_steps(cfg, i, cfg.width, cfg.height))
    \o setup_cp_splitter_steps(cfg, i, len, cfg.width, cfg.height)
    \o (IF needs_cp_null(cfg)
        THEN setup_cp_null_steps(i, cfg.width, cfg.height) ELSE <<>>)
    \o ForEach([n \in 1 .. len |-> slot(n - 1)])
    \o connect_ports_steps(cfg, i, len)

\* the calls whose status the build does not test
step_can_fail(step) == step.op # "rawcam_seed"

\* mutant: the build goes on with the next call
M_goto_end(pc) == [pc EXCEPT !.k = pc.k + 1]

\* ret = 1; goto end: rpigrafx_finish_config returns from where it is
goto_end(pc) == [pc EXCEPT !.phase = "failed"]

\* mutant: the loop stops at the last header
M_seed_done(queue) == Len(queue) <= 1

\* (header = mmal_queue_get(conn->pool->queue)) == NULL
seed_done(queue) == queue = <<>>

\* the loop of a "seed" step has found the pool's queue empty
seed_loop_exit(step) ==
    step.op = "seed" /\ seed_done(pool_queue[<<step.id[2], step.id[3]>>])

\* connect_ports names an output of cp_cameras[i], which is NULL for a raw camera
step_null_camera(step) ==
    /\ step.op = "connect"
    /\ step.id[1] \in {"camera_null", "camera_splitter"}
    /\ <<"camera", step.id[2], 0>> \notin stages

BuildIdle == [phase |-> "idle", cam |-> 0, k |-> 0]

\* mutant: the loop over the cameras runs from the last camera
M_next_used_camera(rest) == CHOOSE c \in rest : \A o \in rest : c >= o

\* for (i = 0; i < num_cameras; i ++) with 'if (!cfg->is_used) continue;':
\* the camera the loop comes to next, rest being the used cameras from i on
next_used_camera(rest) == CHOOSE c \in rest : \A o \in rest : c <= o

\* the head of the loop over the cameras: the next used camera gets its
\* width and height, or the call returns 0
finish_config_next_camera ==
    /\ Running
    /\ build_pc.phase \in {"idle", "next"}
    /\ LET rest == {i \in UsedCameras(cameras_config, num_cameras) : i >= build_pc.cam} IN
         IF rest = {}
         THEN /\ build_pc' = [build_pc EXCEPT !.phase = "done"]
              /\ last_call' = [op |-> "finish_config", h |-> <<0, 0>>, ret |-> 0,
                               err |-> "none"]
              /\ UNCHANGED cameras_config
         ELSE LET i == next_used_camera(rest) IN
              /\ build_pc' = [phase |-> "run", cam |-> i, k |-> 1]
              /\ cameras_config' = [cameras_config EXCEPT
                                      ![i] = finish_config_cfg(cameras_config[i])]
              /\ UNCHANGED last_call
    /\ UNCHANGED <<narmed, called, num_cameras, stages, conn_isps_renders, ctxs, bufVars,
                   rawVars, port_format, enabled, conns, conns_enabled, display_region,
                   waiting, crashed, faulted, nsent, nfreed, retries, ncalls, seq>>

\* mutant: the render is given an empty region
M_render_region(cfg, j) == RegionZero

\* &cfg->render[j].region, read when setup_cp_render sets the display region
render_region(cfg, j) == cfg.render[j].region

\* what a step that succeeds does to the components, ports and connections
finish_config_step_effect(step) ==
    LET h == <<step.id[2], step.id[3]>> IN
    /\ stages' = IF step.op = "create" THEN stages \cup {step.id} ELSE stages
    /\ port_format' = IF step.op = "format"
                      THEN [p \in DOMAIN port_format \cup {<<step.id, step.port>>} |->
                              IF p = <<step.id, step.port>> THEN step.fmt
                              ELSE port_format[p]]
                      ELSE port_format
    /\ enabled' = IF step.op = "enable" THEN enabled \cup {step.id} ELSE enabled
    /\ conns' = IF step.op = "connect"
                THEN conns \cup {[id |-> step.id, flag |-> step.flag]} ELSE conns
    /\ conns_enabled' = IF step.op = "conn_enable"
                        THEN conns_enabled \cup {step.id} ELSE conns_enabled
    /\ display_region' =
          IF step.op = "param" /\ step.flag = "display_region"
          THEN [r \in DOMAIN display_region \cup {step.id} |->
                  IF r = step.id THEN render_region(cameras_config[h[1]], h[2])
                  ELSE display_region[r]]
          ELSE display_region
    /\ conn_isps_renders' =
          IF step.op = "connect" /\ step.id[1] = "isp_render"
          THEN [conn_isps_renders EXCEPT ![h] = TRUE] ELSE conn_isps_renders
    /\ pool_queue' =
          IF step.op = "connect" /\ step.id[1] = "isp_render"
          THEN [pool_queue EXCEPT ![h] = seeded_out_port]
          ELSE IF step.op = "seed"
          THEN [pool_queue EXCEPT ![h] = Tail(pool_queue[h])]
          ELSE pool_queue
    /\ out_port' =
          IF step.op = "seed"
          THEN [out_port EXCEPT ![h] = Append(out_port[h], Head(pool_queue[h]))]
          ELSE out_port
    /\ rawcam_pool' =
          IF step.op = "port_enable" /\ step.id[1] = "rawcam"
          THEN [rawcam_pool EXCEPT ![step.id[2]] =
                  [queue |-> RawPoolSize, port |-> 0, lost |-> 0]]
          ELSE IF step.op = "rawcam_seed"
          THEN [rawcam_pool EXCEPT ![step.id[2]] = rawcam_pool_enabled]
          ELSE rawcam_pool
    /\ splitter_pool' =
          IF step.op = "port_enable" /\ step.flag = "payload_allocate"
               /\ step.id[1] = "splitter"
          THEN [splitter_pool EXCEPT ![step.id[2]] = splitter_pool_enabled]
          ELSE splitter_pool

\* One step of the loop body.  A failing call makes rpigrafx_finish_config
\* return 1 from where it is; a division by zero in the step's arguments
\* traps or goes on; naming a port of the null camera stops the process.
finish_config_step ==
    /\ Running
    /\ build_pc.phase = "run"
    /\ LET steps == finish_config_steps(cameras_config[build_pc.cam], build_pc.cam)
           step == steps[build_pc.k]
       IN \E outcome \in {"ok"} \cup (IF step_can_fail(step) /\ ~seed_loop_exit(step)
                                     THEN {"fail"} ELSE {})
                             \cup (IF step.div0 THEN {"trap"} ELSE {}) :
            IF step_null_camera(step) \/ outcome = "trap"
            THEN /\ crashed' = TRUE
                 /\ UNCHANGED <<build_pc, last_call, stages, port_format, enabled,
                                conns, conns_enabled, display_region, conn_isps_renders, pool_queue,
                                out_port, rawcam_pool, splitter_pool>>
            ELSE IF outcome = "fail"
            THEN /\ build_pc' = goto_end(build_pc)
                 /\ last_call' = [op |-> "finish_config", h |-> <<0, 0>>, ret |-> 1,
                                  err |-> step.op]
                 /\ UNCHANGED <<crashed, stages, port_format, enabled,
                                conns, conns_enabled, display_region, conn_isps_renders, pool_queue,
                                out_port, rawcam_pool, splitter_pool>>
            ELSE /\ IF seed_loop_exit(step)
                    THEN UNCHANGED <<stages, port_format, enabled, conns,
                                     conns_enabled, display_region, conn_isps_renders, pool_queue,
                                     out_port, rawcam_pool, splitter_pool>>
                    ELSE finish_config_step_effect(step)
                 /\ build_pc' = IF step.op = "seed" /\ ~seed_loop_exit(step)
                                THEN build_pc
                                ELSE IF build_pc.k < Len(steps)
                                THEN [build_pc EXCEPT !.k = build_pc.k + 1]
                                ELSE [phase |-> "next", cam |-> build_pc.cam + 1,
                                      k |-> 0]
                 /\ UNCHANGED <<crashed, last_call>>
    /\ UNCHANGED <<narmed, called, num_cameras, cameras_config, ctxs, conn_queue, in_port,
                   raw_wait, raw_path, waiting, faulted, nsent, nfreed, retries,
                   ncalls, seq>>

(* -------- rpigrafx_render_frame -------- *)
\* Outcomes of mmal_port_send_buffer(conn->in, ctx->header):
\*   "ok": the port takes the header;  "fail": it returns an error status;
\*   "crash": the framework dereferences the null header, or the call
\*   dereferences conn_isps_renders[i][j] while it is still NULL.
send_outcomes(header) ==
    IF header = NULL THEN {"fail", "crash"} ELSE {"ok", "fail"}

\* the value rpigrafx_render_frame returns
render_frame_ret(ctx, sent) ==
    IF ctx.status # MMAL_SUCCESS THEN 1 ELSE 0

\* mutant: a failed send is remembered in the context's status
M_render_frame_ctx(ctx, sent) ==
    IF ctx.status = MMAL_SUCCESS /\ sent = "ok"
    THEN [ctx EXCEPT !.is_header_passed_to_render = TRUE]
    ELSE [ctx EXCEPT !.status = 1]

\* the context rpigrafx_render_frame leaves
render_frame_ctx(ctx, sent) ==
    IF ctx.status = MMAL_SUCCESS /\ sent = "ok"
    THEN [ctx EXCEPT !.is_header_passed_to_render = TRUE]
    ELSE ctx

\* the headers rpigrafx_render_frame puts at conn->in
render_frame_sent(ctx, sent) ==
    IF ctx.status = MMAL_SUCCESS /\ sent = "ok" THEN <<ctx.header>> ELSE <<>>

rpigrafx_render_frame(h) ==
    /\ Running /\ waiting = {} /\ Allowed("render")
    /\ ctxs[h].alloc
    /\ \E sent \in (IF conn_isps_renders[conn_of(h)] THEN send_outcomes(ctxs[h].header)
                   ELSE {"crash"}) :
         /\ ctxs' = [ctxs EXCEPT ![h] = render_frame_ctx(ctxs[h], sent)]
         /\ in_port' = [in_port EXCEPT
                          ![conn_of(h)] = in_port[conn_of(h)]
                                            \o render_frame_sent(ctxs[h], sent)]
         /\ nsent' = [nsent EXCEPT
                        ![h] = nsent[h] + Len(render_frame_sent(ctxs[h], sent))]
         /\ crashed' = (ctxs[h].status = MMAL_SUCCESS /\ sent = "crash")
         /\ faulted' = (faulted \/ (ctxs[h].status = MMAL_SUCCESS /\ sent = "fail"))
         /\ last_call' = [op |-> "render", h |-> h,
                          ret |-> render_frame_ret(ctxs[h], sent),
                          err |-> IF sent = "ok" THEN "none" ELSE "send"]
         /\ seq' = Advance("render", render_frame_ret(ctxs[h], sent), TRUE)
    /\ retries' = 0
    /\ UNCHANGED <<narmed, buildVars, rawVars, cfgVars, pool_queue, out_port, conn_queue, waiting,
                   nfreed, ncalls>>

(* -------- rpigrafx_capture_next_frame -------- *)
\* Outcomes of setting MMAL_PARAMETER_CAPTURE: only a camera on its capture
\* port is triggered
capture_trigger_outcomes(cfg) ==
    IF cfg.use_camera_capture_port THEN {"ok", "fail"} ELSE {"none"}

\* mutant: one header is taken, as by an if in place of the while
M_drain_count(queue) == Min(Len(queue), 1)

\* the number of headers the loop
\*   while ((header = mmal_queue_get(conn->pool->queue)) != NULL)
\* takes from the pool's queue before the call waits
drain_count(queue) == Len(queue)

\* the headers the loop sends to conn->out, and those it leaves on the queue
drain_sent(queue) == SubSeq(queue, 1, drain_count(queue))
drain_left(queue) == SubSeq(queue, drain_count(queue) + 1, Len(queue))

\* mutant: the trigger is set whatever the port
M_capture_arms(trigger) == 1

\* the number of times the call sets MMAL_PARAMETER_CAPTURE on the capture
\* port, before anything else it does
capture_arms(trigger) == IF trigger = "none" THEN 0 ELSE 1

\* mutant: no header is taken for an empty one
M_is_empty_header(length) == FALSE

\* the test that makes the wait loop discard a header
is_empty_header(length) == length = 0

(* The raw path of the call, for a camera configured by rpigrafx_config_rawcam.
   A pool is counted: queue headers on the pool's queue, port headers at the
   component's port (sent, or filled and not yet taken), lost headers the call
   took and neither released nor sent before it returned.
   How far the path gets:
     "get_empty", "get_full": the wrapper call returns an error, no header is held
     "send_empty": sending the first empty header to the rawcam fails
     "malloc", "raw10_to_raw8": raw8 is not allocated or not converted, while
        the full rawcam header is held
     "component_gain", "to_rgb888", "send_splitter": a step fails while the
        splitter's input header is held
     "ok": the frame is sent to the splitter
     "wait_rawcam", "wait_splitter": the call blocks in
        mmal_wrapper_buffer_get_full or mmal_queue_wait(input_queue) because
        the pool has no header left to deliver *)
RawHeldFailures == {"malloc", "raw10_to_raw8"}
SplitterHeldFailures == {"component_gain", "to_rgb888", "send_splitter"}
RawWaits == {"wait_rawcam", "wait_splitter"}

raw_outcomes(rp, sp) ==
    {"get_empty"}
      \cup (IF rp.queue > 0 THEN {"send_empty"} ELSE {})
      \cup (IF rp.queue + rp.port = 0 THEN {"wait_rawcam"}
            ELSE {"get_full"} \cup RawHeldFailures
                   \cup (IF sp.queue = 0 THEN {"wait_splitter"}
                         ELSE SplitterHeldFailures \cup {"ok"}))

\* the rawcam pool after the path: the first loop sends every header on the
\* queue, one full header is taken, and released after the conversion
rawcam_pool_after(rp, raw) ==
    CASE raw = "get_empty" -> rp
      [] raw = "send_empty" ->
            [rp EXCEPT !.queue = rp.queue - 1, !.lost = rp.lost + 1]
      [] raw \in {"get_full", "wait_rawcam"} ->
            [rp EXCEPT !.queue = 0, !.port = rp.port + rp.queue]
      [] raw \in RawHeldFailures ->
            [rp EXCEPT !.queue = 0, !.port = rp.port + rp.queue - 1,
                       !.lost = rp.lost + 1]
      [] OTHER ->
            [rp EXCEPT !.queue = 1, !.port = rp.port + rp.queue - 1]

\* mutant: a side-information header is dropped
M_rawcam_sideinfo(rp) ==
    [rp EXCEPT !.queue = 0, !.port = rp.port + rp.queue - 1, !.lost = rp.lost + 1]

\* One pass of the outer loop that ends in 'continue': the empty headers are
\* sent to the rawcam, the full header got from it carries
\* MMAL_BUFFER_HEADER_FLAG_CODECSIDEINFO and is released to the pool's queue.
rawcam_sideinfo(rp) == [rp EXCEPT !.queue = 1, !.port = rp.port + rp.queue - 1]

RECURSIVE rawcam_sideinfos(_, _)
\* the rawcam pool after n such passes
rawcam_sideinfos(rp, n) ==
    IF n = 0 THEN rp ELSE rawcam_sideinfos(rawcam_sideinfo(rp), n - 1)

\* the numbers of side-information headers the rawcam may deliver before
\* the header the path goes on with
SideInfos(rp) == IF rp.queue + rp.port = 0 THEN {0} ELSE 0 .. MaxSideInfo

NoRawPath == [sideinfo |-> 0, converted |-> 0, raw_released |-> FALSE,
              injected |-> 0, eos |-> FALSE]

\* What the raw path has done when it ends with raw: the side-information
\* headers it has released, the frames rpiraw_convert_raw10_to_raw8 has
\* converted, whether the raw header was released after the conversion, the
\* headers sent to the splitter's input and whether they carry
\* MMAL_BUFFER_HEADER_FLAG_EOS.
raw_path_of(raw, sideinfo) ==
    [sideinfo |-> sideinfo,
     converted |-> IF raw \in {"wait_splitter", "ok"} \cup SplitterHeldFailures
                   THEN 1 ELSE 0,
     raw_released |-> raw \in {"wait_splitter", "ok"} \cup SplitterHeldFailures,
     injected |-> IF raw = "ok" THEN 1 ELSE 0,
     eos |-> raw = "ok"]

\* the splitter's input pool after the path
splitter_pool_after(sp, raw) ==
    CASE raw \in SplitterHeldFailures ->
            [sp EXCEPT !.queue = sp.queue - 1, !.lost = sp.lost + 1]
      [] raw = "ok" ->
            [sp EXCEPT !.queue = sp.queue - 1, !.port = sp.port + 1]
      [] OTHER -> sp

\* The call up to its first mmal_queue_wait(conn->queue): the trigger, the
\* release of the previous header, and the refill of conn->out from the pool.
\* Before rpigrafx_finish_config has built the camera, cp_cameras[i] and
\* conn_isps_renders[i][j] are still NULL: "camera" when the trigger
\* dereferences cp_cameras[i], "conn" when the wait loop dereferences conn.
capture_null_dereference(h) ==
    IF cameras_config[h[1]].use_camera_capture_port
         /\ <<"camera", h[1], 0>> \notin stages
    THEN "camera"
    ELSE IF ~conn_isps_renders[h] THEN "conn" ELSE "none"

\* mutant: the held header is given up before the trigger is set
M_trigger_failed_ctx(ctx) == [ctx EXCEPT !.header = NULL]

\* the context of a call that leaves at the failed trigger: the goto end is
\* taken before rpigrafx_free_frame is called
trigger_failed_ctx(ctx) == ctx

rpigrafx_capture_next_frame(h) ==
    /\ Running /\ waiting = {} /\ Allowed("capture")
    /\ ctxs[h].alloc
    /\ \E trigger \in capture_trigger_outcomes(cameras_config[h[1]]) :
         IF capture_null_dereference(h) = "camera"
         THEN /\ crashed' = TRUE
              /\ UNCHANGED <<ctxs, bufVars, rawVars, waiting, nfreed, last_call, seq,
                             retries, faulted, narmed>>
         ELSE IF trigger = "fail"
         THEN /\ narmed' = capture_arms(trigger)
              /\ last_call' = [op |-> "capture", h |-> h, ret |-> 1,
                               err |-> "trigger"]
              /\ seq' = Advance("capture", 1, TRUE)
              /\ retries' = 0
              /\ faulted' = TRUE
              /\ ctxs' = [ctxs EXCEPT ![h] = trigger_failed_ctx(ctxs[h])]
              /\ UNCHANGED <<bufVars, rawVars, waiting, nfreed, crashed>>
         ELSE IF capture_null_dereference(h) = "conn"
         THEN /\ narmed' = capture_arms(trigger)
              /\ ctxs' = [ctxs EXCEPT ![h] = free_frame_ctx(ctxs[h])]
              /\ nfreed' = [nfreed EXCEPT
                              ![h] = nfreed[h] + Len(free_frame_released(ctxs[h]))]
              /\ crashed' = TRUE
              /\ UNCHANGED <<bufVars, rawVars, waiting, last_call, seq, retries, faulted>>
         ELSE \E sideinfo \in (IF IMPL_RAWCAM /\ cameras_config[h[1]].is_rawcam
                               THEN SideInfos(rawcam_pool[h[1]]) ELSE {0}) :
              \E raw \in (IF IMPL_RAWCAM /\ cameras_config[h[1]].is_rawcam
                          THEN raw_outcomes(rawcam_sideinfos(rawcam_pool[h[1]],
                                                             sideinfo),
                                            splitter_pool[h[1]])
                          ELSE {"none"}) :
              /\ narmed' = capture_arms(trigger)
              /\ raw_path' = IF raw = "none" THEN raw_path
                              ELSE raw_path_of(raw, sideinfo)
              /\ ctxs' = [ctxs EXCEPT ![h] = free_frame_ctx(ctxs[h])]
              /\ nfreed' = [nfreed EXCEPT
                              ![h] = nfreed[h] + Len(free_frame_released(ctxs[h]))]
              /\ IF raw = "none"
                 THEN UNCHANGED <<rawcam_pool, splitter_pool>>
                 ELSE /\ rawcam_pool' =
                           [rawcam_pool EXCEPT
                              ![h[1]] =
                                 rawcam_pool_after(
                                    rawcam_sideinfos(rawcam_pool[h[1]], sideinfo),
                                    raw)]
                      /\ splitter_pool' =
                           [splitter_pool EXCEPT
                              ![h[1]] = splitter_pool_after(splitter_pool[h[1]], raw)]
              /\ IF raw \in {"none", "ok"}
                 THEN /\ pool_queue' =
                           [pool_queue EXCEPT
                              ![conn_of(h)] =
                                 drain_left(pool_queue[conn_of(h)]
                                              \o free_frame_released(ctxs[h]))]
                      /\ out_port' =
                           [out_port EXCEPT
                              ![conn_of(h)] =
                                 out_port[conn_of(h)]
                                   \o drain_sent(pool_queue[conn_of(h)]
                                                   \o free_frame_released(ctxs[h]))]
                      /\ waiting' = {h}
                      /\ retries' = 0
                      /\ UNCHANGED <<raw_wait, last_call, seq, faulted>>
                 ELSE /\ pool_queue' =
                           [pool_queue EXCEPT
                              ![h] = pool_queue[h] \o free_frame_released(ctxs[h])]
                      /\ UNCHANGED out_port
                      /\ IF raw \in RawWaits
                         THEN /\ waiting' = {h}
                              /\ raw_wait' = raw
                              /\ retries' = 0
                              /\ UNCHANGED <<last_call, seq, faulted>>
                         ELSE /\ last_call' = [op |-> "capture", h |-> h, ret |-> 1,
                                               err |-> raw]
                              /\ seq' = Advance("capture", 1, TRUE)
                              /\ retries' = 0
                              /\ faulted' = TRUE
                              /\ UNCHANGED <<waiting, raw_wait>>
              /\ UNCHANGED <<conn_queue, in_port, crashed>>
    /\ UNCHANGED <<buildVars, cfgVars, nsent, ncalls>>

\* The call from the return of mmal_queue_wait(conn->queue): a zero-length
\* header is released, the pool is emptied into conn->out again and the call
\* waits again; any other header is stored in the context and the call returns.
capture_next_frame_wakeup(h) ==
    /\ Running /\ waiting = {h} /\ raw_wait = "none"
    /\ conn_queue[conn_of(h)] # <<>>
    /\ LET head == Head(conn_queue[conn_of(h)]) IN
         /\ conn_queue' = [conn_queue EXCEPT
                             ![conn_of(h)] = Tail(conn_queue[conn_of(h)])]
         /\ IF is_empty_header(head.length)
            THEN /\ pool_queue' =
                      [pool_queue EXCEPT
                         ![conn_of(h)] =
                            drain_left(pool_queue[conn_of(h)] \o <<head.buf>>)]
                 /\ out_port' =
                      [out_port EXCEPT
                         ![conn_of(h)] =
                            out_port[conn_of(h)]
                              \o drain_sent(pool_queue[conn_of(h)] \o <<head.buf>>)]
                 /\ retries' = Min(retries + 1, MaxRetries)
                 /\ UNCHANGED <<ctxs, waiting, last_call, seq, nsent, nfreed>>
            ELSE /\ ctxs' = [ctxs EXCEPT ![h].header = head.buf]
                 /\ waiting' = {}
                 /\ nsent' = [nsent EXCEPT ![h] = 0]
                 /\ nfreed' = [nfreed EXCEPT ![h] = 0]
                 /\ last_call' = [op |-> "capture", h |-> h, ret |-> 0,
                                  err |-> "none"]
                 /\ seq' = Advance("capture", 0, TRUE)
                 /\ UNCHANGED <<pool_queue, out_port, retries>>
    /\ UNCHANGED <<narmed, buildVars, rawVars, cfgVars, in_port, crashed, faulted, ncalls>>

(* -------- the components at the two ends of the connection -------- *)
\* the splitter's wrapper puts the consumed input header back on the input
\* pool's queue
splitter_pool_consumed(sp) == [sp EXCEPT !.queue = sp.queue + 1, !.port = sp.port - 1]

\* The isp fills the oldest header at its output port, with or without
\* payload, and the connection puts it on conn->queue.  The isp of a raw camera
\* has a frame to work on only while one is at the splitter's input, where
\* the capture call sent it.
isp_fill_buffer(h) ==
    /\ Running
    /\ out_port[h] # <<>>
    /\ IF cameras_config[h[1]].is_rawcam
       THEN /\ splitter_pool[h[1]].port > 0
            /\ splitter_pool' = [splitter_pool EXCEPT
                                   ![h[1]] = splitter_pool_consumed(splitter_pool[h[1]])]
       ELSE UNCHANGED splitter_pool
    /\ \E length \in {0, 1} :
         conn_queue' = [conn_queue EXCEPT
                          ![h] = Append(conn_queue[h],
                                        [buf |-> Head(out_port[h]), length |-> length])]
    /\ out_port' = [out_port EXCEPT ![h] = Tail(out_port[h])]
    /\ UNCHANGED <<narmed, buildVars, cfgVars, ctxs, pool_queue, in_port, rawcam_pool, raw_wait, raw_path, waiting,
                   crashed, faulted, ghostVars>>

\* The render is done with the oldest header at its input port; the
\* connection releases it, which puts it back on conn->pool->queue.
render_return_buffer(h) ==
    /\ Running
    /\ in_port[h] # <<>>
    /\ pool_queue' = [pool_queue EXCEPT ![h] = Append(pool_queue[h], Head(in_port[h]))]
    /\ in_port' = [in_port EXCEPT ![h] = Tail(in_port[h])]
    /\ UNCHANGED <<narmed, buildVars, rawVars, cfgVars, ctxs, out_port, conn_queue, waiting, crashed, faulted, ghostVars>>

(* -------- specifications -------- *)
EmptyQueues == [h \in Handles |-> <<>>]

\* the program before any call: the static tables are zero
InitConfig ==
    /\ called = 0
    /\ num_cameras = 0
    /\ cameras_config = [i \in Cameras |-> CfgZero]
    /\ stages = {}
    /\ conn_isps_renders = [h \in Handles |-> FALSE]
    /\ ctxs = [h \in Handles |-> NoCtx]
    /\ pool_queue = EmptyQueues /\ out_port = EmptyQueues
    /\ conn_queue = EmptyQueues /\ in_port = EmptyQueues
    /\ waiting = {}
    /\ crashed = FALSE
    /\ faulted = FALSE
    /\ rawcam_pool = [i \in Cameras |-> RawZero]
    /\ splitter_pool = [i \in Cameras |-> RawZero]
    /\ raw_wait = "none"
    /\ raw_path = NoRawPath
    /\ narmed = 0
    /\ build_pc = BuildIdle /\ port_format = <<>>
    /\ enabled = {} /\ conns = {} /\ conns_enabled = {} /\ display_region = <<>>
    /\ last_call = NoCall
    /\ nsent = [h \in Handles |-> 0]
    /\ nfreed = [h \in Handles |-> 0]
    /\ retries = 0
    /\ ncalls = [i \in Cameras |-> 0]
    /\ seq = SeqAny

NextConfig ==
    \/ \E query \in InfoOutcomes, n \in CameraCounts :
         priv_rpigrafx_mmal_init(query, n)
    \/ priv_rpigrafx_mmal_finalize
    \/ \E i \in CallCameras, camera_port \in CameraPorts :
         rpigrafx_config_camera_port(i, camera_port)
    \/ \E camera_number \in CameraNumbers, width \in Widths, height \in Heights,
          encoding \in Encodings, zero_copy \in ZeroCopyFlags :
         rpigrafx_config_camera_frame(camera_number, width, height, encoding,
                                      zero_copy)
    \/ rpigrafx_finish_config

SpecConfig == InitConfig /\ [][NextConfig]_vars

\* The tables after the test program's configuration of camera 0: init, one
\* frame of the full sensor size, the port, finish_config.
ConfiguredCfg(i, camera_port) ==
    LET fresh == init_info_cfg(init_reset_cfg(CfgZero), i, 1) IN
    IF i # 0 THEN fresh
    ELSE config_camera_port_cfg(
             config_camera_frame_cfg(fresh, "none", HwMaxWidth, HwMaxHeight,
                                     MMAL_ENCODING_RGB24, TRUE),
             camera_port)

TestShapes ==
    {[mode |-> "test", get_frame |-> g, no_render |-> r,
      manually_free_frame |-> f, next |-> "capture", i |-> 0] :
        g, r, f \in BOOLEAN}

\* built: rpigrafx_finish_config has returned 0; otherwise the caller goes on
\* to the frame calls without it.
InitCapture ==
    \E camera_port \in {"PREVIEW", "CAPTURE"}, built \in BOOLEAN :
      LET cfgs == [i \in Cameras |-> ConfiguredCfg(i, camera_port)] IN
        /\ called = 1
        /\ num_cameras = 1
        /\ cameras_config = [i \in Cameras |->
                               IF built /\ i \in UsedCameras(cfgs, 1)
                               THEN finish_config_cfg(cfgs[i]) ELSE cfgs[i]]
        /\ stages = IF built
                    THEN UNION {camera_stages(cfgs[i], i) :
                                   i \in UsedCameras(cfgs, 1)}
                    ELSE {}
        /\ conn_isps_renders =
              [h \in Handles |-> built /\ h \in BuiltHandles(cfgs, 1)]
        /\ ctxs = [h \in Handles |->
                     IF h \in BuiltHandles(cfgs, 1) THEN NewCtx ELSE NoCtx]
        /\ pool_queue = EmptyQueues
        /\ out_port = [h \in Handles |->
                         IF built /\ h \in BuiltHandles(cfgs, 1)
                         THEN seeded_out_port ELSE <<>>]
        /\ conn_queue = EmptyQueues /\ in_port = EmptyQueues
        /\ waiting = {}
        /\ crashed = FALSE
        /\ faulted = FALSE
        /\ rawcam_pool = [i \in Cameras |-> RawZero]
        /\ splitter_pool = [i \in Cameras |-> RawZero]
        /\ raw_wait = "none"
        /\ raw_path = NoRawPath
        /\ narmed = 0
        /\ build_pc = BuildIdle /\ port_format = <<>>
        /\ enabled = {} /\ conns = {} /\ conns_enabled = {} /\ display_region = <<>>
        /\ last_call = NoCall
        /\ nsent = [h \in Handles |-> 0]
        /\ nfreed = [h \in Handles |-> 0]
        /\ retries = 0
        /\ ncalls = [i \in Cameras |-> IF i = 0 THEN 1 ELSE 0]
        /\ seq \in (IF built THEN {SeqAny} \cup TestShapes ELSE {SeqAny})

Slots == {h \in Handles : ctxs[h].alloc}

NextCapture ==
    \/ \E h \in Slots : rpigrafx_capture_next_frame(h)
    \/ \E h \in Slots : capture_next_frame_wakeup(h)
    \/ \E h \in Slots : rpigrafx_get_frame(h)
    \/ \E h \in Slots : rpigrafx_free_frame(h)
    \/ \E h \in Slots : rpigrafx_render_frame(h)
    \/ \E h \in Slots : isp_fill_buffer(h)
    \/ \E h \in Slots : render_return_buffer(h)

SpecCapture == InitCapture /\ [][NextCapture]_vars

\* The tables after init found one camera and camera 0 got one frame; the
\* caller goes on to configure the port and the raw acquisition, to build,
\* and to the frame calls.
InitRawcam ==
    /\ called = 1
    /\ num_cameras = 1
    /\ cameras_config = [i \in Cameras |-> ConfiguredCfg(i, "PREVIEW")]
    /\ stages = {}
    /\ conn_isps_renders = [h \in Handles |-> FALSE]
    /\ ctxs = [h \in Handles |-> IF h = <<0, 0>> THEN NewCtx ELSE NoCtx]
    /\ pool_queue = EmptyQueues /\ out_port = EmptyQueues
    /\ conn_queue = EmptyQueues /\ in_port = EmptyQueues
    /\ waiting = {}
    /\ crashed = FALSE /\ faulted = FALSE
    /\ rawcam_pool = [i \in Cameras |-> RawZero]
    /\ splitter_pool = [i \in Cameras |-> RawZero]
    /\ raw_wait = "none"
    /\ raw_path = NoRawPath
    /\ narmed = 0
    /\ build_pc = BuildIdle /\ port_format = <<>>
    /\ enabled = {} /\ conns = {} /\ conns_enabled = {} /\ display_region = <<>>
    /\ last_call = NoCall
    /\ nsent = [h \in Handles |-> 0]
    /\ nfreed = [h \in Handles |-> 0]
    /\ retries = 0
    /\ ncalls = [i \in Cameras |-> IF i = 0 THEN 1 ELSE 0]
    /\ seq = SeqAny

NextRawcam ==
    \/ \E h \in Slots, nbits \in RawBitsArgs : rpigrafx_config_rawcam(h, nbits)
    \/ \E camera_port \in CameraPorts : rpigrafx_config_camera_port(0, camera_port)
    \/ rpigrafx_finish_config
    \/ \E h \in Slots : rpigrafx_capture_next_frame(h)
    \/ \E h \in Slots : capture_next_frame_wakeup(h)
    \/ \E h \in Slots : rpigrafx_get_frame(h)
    \/ \E h \in Slots : rpigrafx_free_frame(h)
    \/ \E h \in Slots : rpigrafx_render_frame(h)
    \/ \E h \in Slots : isp_fill_buffer(h)
    \/ \E h \in Slots : render_return_buffer(h)

SpecRawcam == InitRawcam /\ [][NextRawcam]_vars

\* The tables after init found two cameras and the caller requested two
\* frames: both of camera 0, or one of camera 0 and one of camera 1.
SlotsCfg(i, other) ==
    LET fresh == init_info_cfg(init_reset_cfg(CfgZero), i, 2)
        one == config_camera_frame_cfg(fresh, "none", HwMaxWidth, HwMaxHeight,
                                       MMAL_ENCODING_RGB24, TRUE)
        two == config_camera_frame_cfg(one, "none", HwMaxWidth, HwMaxHeight,
                                       MMAL_ENCODING_RGB24, TRUE)
    IN IF i = 0 THEN (IF other[1] = 0 THEN two ELSE one)
       ELSE IF i = other[1] THEN one ELSE fresh

\* two slots that rpigrafx_finish_config has built, and a caller that makes
\* SlotCalls frame calls on them in any order
InitSlots ==
    \E other \in {<<0, 1>>, <<1, 0>>} :
      LET cfgs == [i \in Cameras |-> SlotsCfg(i, other)] IN
        /\ called = 1
        /\ num_cameras = 2
        /\ cameras_config = [i \in Cameras |->
                               IF i \in UsedCameras(cfgs, 2)
                               THEN finish_config_cfg(cfgs[i]) ELSE cfgs[i]]
        /\ stages = UNION {camera_stages(cfgs[i], i) : i \in UsedCameras(cfgs, 2)}
        /\ conn_isps_renders = [h \in Handles |-> h \in BuiltHandles(cfgs, 2)]
        /\ ctxs = [h \in Handles |->
                     IF h \in BuiltHandles(cfgs, 2) THEN NewCtx ELSE NoCtx]
        /\ pool_queue = EmptyQueues
        /\ out_port = [h \in Handles |->
                         IF h \in BuiltHandles(cfgs, 2)
                         THEN seeded_out_port ELSE <<>>]
        /\ conn_queue = EmptyQueues /\ in_port = EmptyQueues
        /\ waiting = {}
        /\ crashed = FALSE /\ faulted = FALSE
        /\ rawcam_pool = [i \in Cameras |-> RawZero]
        /\ splitter_pool = [i \in Cameras |-> RawZero]
        /\ raw_wait = "none"
        /\ raw_path = NoRawPath
        /\ narmed = 0
        /\ build_pc = BuildIdle /\ port_format = <<>>
        /\ enabled = {} /\ conns = {} /\ conns_enabled = {} /\ display_region = <<>>
        /\ last_call = NoCall
        /\ nsent = [h \in Handles |-> 0]
        /\ nfreed = [h \in Handles |-> 0]
        /\ retries = 0
        /\ ncalls = [i \in Cameras |-> cfgs[i].next_output_idx]
        /\ seq = SeqCount

SpecSlots == InitSlots /\ [][NextCapture]_vars

(* -------- rpigrafx_finish_config, step by step -------- *)
\* the frames the caller requests: any width the library accepts, zero included
BuildWidths == {0, HwMaxWidth - 1, HwMaxWidth}
\* the widths requested of a raw camera
BuildRawWidths == {1, HwMaxWidth}
BuildShapes == {<<HwMaxHeight, MMAL_ENCODING_RGB24>>,
                <<HwMaxHeight - 1, MMAL_ENCODING_OPAQUE>>}
BuildRequests == {[width |-> w, height |-> s[1], encoding |-> s[2]] :
                    w \in BuildWidths \cup BuildRawWidths, s \in BuildShapes}
BuildSlotCounts == {1, 2}
BuildRequestLists == UNION {[1 .. n -> BuildRequests] : n \in BuildSlotCounts}

\* the tests of rpigrafx_config_camera_frame on a request for a camera that
\* was found: there is no test of width or height against zero
requested_err(cfg, width, height) ==
    IF exceeds_max(width, cfg.max_width) THEN "width"
    ELSE IF exceeds_max(height, cfg.max_height) THEN "height"
    ELSE IF too_many_clients(cfg.next_output_idx) THEN "too_many"
    ELSE "none"

RECURSIVE requested(_, _)
\* the table entry after rpigrafx_config_camera_frame has been called with
\* each of the requests
requested(cfg, reqs) ==
    IF reqs = <<>> THEN cfg
    ELSE requested(config_camera_frame_cfg(cfg,
                       requested_err(cfg, Head(reqs).width, Head(reqs).height),
                       Head(reqs).width, Head(reqs).height, Head(reqs).encoding,
                       TRUE),
                   Tail(reqs))

\* camera 0 after the configuration calls; camera 1 is found, and is used
\* with one slot (both) or not at all
BuildCfg(i, reqs, camera_port, raw, both) ==
    LET fresh == init_info_cfg(init_reset_cfg(CfgZero), i, 2)
        port == config_camera_port_cfg(fresh, camera_port)
    IN IF i = 0
       THEN requested(IF raw THEN config_rawcam_cfg(port, 10) ELSE port, reqs)
       ELSE IF i = 1 /\ both
       THEN requested(fresh, <<[width |-> HwMaxWidth, height |-> HwMaxHeight,
                                encoding |-> MMAL_ENCODING_RGB24]>>)
       ELSE fresh

\* the state in which the caller calls rpigrafx_finish_config; a raw camera
\* gets no zero-sized request (rpigrafx_finish_config would divide by it)
InitBuild ==
    \E reqs \in BuildRequestLists, camera_port \in {"PREVIEW", "CAPTURE"},
       raw \in BOOLEAN, both \in BOOLEAN :
      /\ \A k \in DOMAIN reqs :
            reqs[k].width \in (IF raw THEN BuildRawWidths ELSE BuildWidths)
      /\ both => Len(reqs) = 1
      /\ called = 1
      /\ num_cameras = 2
      /\ cameras_config = [i \in Cameras |-> BuildCfg(i, reqs, camera_port, raw, both)]
      /\ stages = {}
      /\ conn_isps_renders = [h \in Handles |-> FALSE]
      /\ ctxs = [h \in Handles |->
                   IF h[2] < BuildCfg(h[1], reqs, camera_port, raw, both).next_output_idx
                   THEN NewCtx ELSE NoCtx]
      /\ pool_queue = EmptyQueues /\ out_port = EmptyQueues
      /\ conn_queue = EmptyQueues /\ in_port = EmptyQueues
      /\ waiting = {}
      /\ crashed = FALSE /\ faulted = FALSE
      /\ rawcam_pool = [i \in Cameras |-> RawZero]
      /\ splitter_pool = [i \in Cameras |-> RawZero]
      /\ raw_wait = "none"
      /\ raw_path = NoRawPath
      /\ narmed = 0
      /\ build_pc = BuildIdle /\ port_format = <<>>
      /\ enabled = {} /\ conns = {} /\ conns_enabled = {} /\ display_region = <<>>
      /\ last_call = NoCall
      /\ nsent = [h \in Handles |-> 0]
      /\ nfreed = [h \in Handles |-> 0]
      /\ retries = 0
      /\ ncalls = [i \in Cameras |->
                     BuildCfg(i, reqs, camera_port, raw, both).next_output_idx]
      /\ seq = SeqAny

NextBuild ==
    \/ finish_config_next_camera
    \/ finish_config_step

SpecBuild == InitBuild /\ [][NextBuild]_vars

(* ======================= claims ======================= *)

\* C1: in every state reachable through capture_next_frame, get_frame,
\* free_frame and render_frame calls on a built slot, every header of the
\* slot's isp -> render pool has exactly one owner among the pool queue, the
\* isp output port, the delivery queue, the frame context and the render
\* input port.
C1_ExactlyOneOwner ==
    \A h \in Slots : conn_isps_renders[h] =>
        \A b \in Buffers : NumOwners(h, b) = 1

\* C2: no header is ever dropped: every header of the slot's pool is in a
\* queue, at a port, or referenced by the slot's frame context; a stored
\* header is never overwritten without having been released or sent to render.
C2_NoBufferDropped ==
    \A h \in Slots : conn_isps_renders[h] =>
        \A b \in Buffers : QueueRefs(h, b) >= 1 \/ ctxs[h].header = b

\* C3: a capture call made while the previously captured header was neither
\* released nor sent to render releases that header before it waits, whatever
\* happened in earlier cycles; at most one header of the pool is outside the
\* queues and ports.
C3_AutoRelease ==
    \A h \in Slots : conn_isps_renders[h] =>
        /\ (waiting = {h} /\ nsent[h] = 0) => ctxs[h].header = NULL
        /\ Cardinality({b \in Buffers : QueueRefs(h, b) = 0}) <= 1

\* C4: a free_frame call on a context whose header has been sent to render
\* releases nothing, changes neither the context nor any queue, and returns 0.
C4_ReleaseAfterHandoff ==
    [][\A h \in Slots :
          (nsent[h] >= 1 /\ rpigrafx_free_frame(h))
             => /\ UNCHANGED <<ctxs, bufVars>>
                /\ last_call'.op = "free" /\ last_call'.ret = 0]_vars

C4_Witness ==
    \E h \in Slots :
        /\ last_call.op = "free" /\ last_call.h = h /\ last_call.ret = 0
        /\ nsent[h] = 1 /\ nfreed[h] = 0
        /\ ctxs[h].header # NULL /\ Count(in_port[h], ctxs[h].header) = 1

\* C5: the header stored by one capture call is consumed at most once in all:
\* it is sent to render at most once and never both released and sent.
C5_ConsumedAtMostOnce ==
    \A h \in Slots : nsent[h] + nfreed[h] <= 1

\* C6: once the held header has been released or sent to render, every
\* get_frame call returns no pointer until the next successful capture.
C6_IdleAfterConsume ==
    [][\A h \in Slots :
          (nsent[h] + nfreed[h] >= 1 /\ rpigrafx_get_frame(h))
             => last_call'.ret = NULL]_vars

\* C7: in the test program's loop, whatever its options, as long as the
\* framework has refused neither a capture trigger nor a header sent to render,
\* every capture call and every render call returns 0, every get_frame returns
\* a pointer, the program neither crashes nor leaves at a failed check, and
\* every header of the pool stays in circulation: none is lost and none is in
\* two places.
C7_TestCycles ==
    (seq.mode = "test" /\ ~faulted) =>
        /\ last_call.op = "capture" => last_call.ret = 0
        /\ last_call.op = "render" => last_call.ret = 0
        /\ last_call.op = "get" => last_call.ret # NULL
        /\ seq.next # "exit" /\ ~crashed
        /\ \A h \in Slots : conn_isps_renders[h] =>
              \A b \in Buffers :
                  /\ QueueRefs(h, b) <= 1
                  /\ QueueRefs(h, b) = 1 \/ ctxs[h].header = b

C7_Witness ==
    /\ seq.mode = "test" /\ seq.get_frame /\ ~seq.no_render
    /\ seq.i >= MaxFrames /\ ~faulted
    /\ last_call.op = "render" /\ last_call.ret = 0 /\ last_call.err = "none"

\* C8: the capture call that takes a header from the delivery queue releases
\* it exactly once and keeps waiting when its length is zero, and stores it
\* in the context and returns 0 otherwise; a zero-length header is never
\* stored.
C8_EmptyFrameRetry ==
    [][\A h \in Slots :
          (waiting = {h} /\ conn_queue[h] # <<>>
             /\ Len(conn_queue'[h]) < Len(conn_queue[h]))
          => LET head == Head(conn_queue[h]) IN
             IF head.length = 0
             THEN /\ ctxs' = ctxs /\ waiting' = {h} /\ last_call' = last_call
                  /\ conn_queue'[h] = Tail(conn_queue[h])
                  /\ pool_queue'[h] = <<>> /\ in_port' = in_port
                  /\ Count(out_port'[h], head.buf) = Count(out_port[h], head.buf)
                        + Count(pool_queue[h], head.buf) + 1
             ELSE /\ ctxs'[h].header = head.buf
                  /\ waiting' = {}
                  /\ last_call'.op = "capture" /\ last_call'.ret = 0
                  /\ UNCHANGED <<pool_queue, out_port, in_port>>]_vars

C8_Witness ==
    \E h \in Slots :
        /\ waiting = {} /\ last_call.op = "capture" /\ last_call.ret = 0
        /\ retries >= MaxRetries
        /\ ctxs[h].header # NULL

StoredWithinMax ==
    \A c \in Cameras :
        \A j \in 0 .. (cameras_config[c].next_output_idx - 1) :
            /\ cameras_config[c].isp[j].width <= cameras_config[c].max_width
            /\ cameras_config[c].isp[j].height <= cameras_config[c].max_height

C10_ResolutionExceedsSensor ==
    [][/\ StoredWithinMax'
       /\ \A c \in CallCameras, w \in Widths, hh \in Heights,
             e \in Encodings, z \in ZeroCopyFlags :
             (/\ c < num_cameras
              /\ (w > cameras_config[c].max_width
                    \/ hh > cameras_config[c].max_height)
              /\ last_call'.op = "config_camera_frame" /\ last_call'.h[1] = c
              /\ rpigrafx_config_camera_frame(c, w, hh, e, z))
             => /\ last_call'.op = "config_camera_frame" /\ last_call'.ret = 1
                /\ UNCHANGED <<cameras_config, ctxs, stages, conn_isps_renders,
                               num_cameras>>]_vars

C10_Witness ==
    /\ last_call.op = "config_camera_frame" /\ last_call.h[1] = 0
    /\ last_call.err \in {"width", "height"} /\ last_call.ret = 1
    /\ cameras_config[0].next_output_idx >= 1
    /\ cameras_config[0].max_width = HwMaxWidth

\* C11: a config_camera_frame call returns 0 only for a camera number in
\* 0 .. num_cameras - 1; a call with a camera number >= num_cameras returns 1
\* with the camera-number error and leaves the camera tables and the contexts
\* unchanged.
C11_CameraIndexInRange ==
    [][\A c \in CameraNumbers, w \in Widths, hh \in Heights,
          e \in Encodings, z \in ZeroCopyFlags :
          rpigrafx_config_camera_frame(c, w, hh, e, z)
             => /\ c >= num_cameras =>
                     /\ last_call'.ret = 1 /\ last_call'.err = "camera_number"
                     /\ UNCHANGED <<cameras_config, ctxs>>
                /\ last_call'.ret = 0 => c \in 0 .. (num_cameras - 1)]_vars

\* C12: a config_camera_frame call that returns 0 marks the camera used, adds
\* exactly one output holding the requested width, height, encoding and
\* zero-copy flag, leaves every other output and camera as it was, binds a new
\* context (no header, not passed to render, status success) to that output
\* and to no other, and returns the handle (camera, output index); the index
\* is the number of earlier calls with valid arguments on that camera since
\* initialisation, so the indexes of one camera increase in call order.
C12_SuccessfulRequest ==
    [][\A c \in CallCameras, w \in Widths, hh \in Heights,
          e \in Encodings, z \in ZeroCopyFlags :
          (/\ last_call'.op = "config_camera_frame" /\ last_call'.ret = 0
           /\ last_call'.h[1] = c
           /\ rpigrafx_config_camera_frame(c, w, hh, e, z))
          => LET idx == cameras_config[c].next_output_idx IN
             /\ cameras_config'[c].is_used
             /\ cameras_config'[c].next_output_idx = idx + 1
             /\ cameras_config'[c].isp[idx] =
                   [width |-> w, height |-> hh, encoding |-> e,
                    is_zero_copy_rendering |-> z]
             /\ \A j \in Outputs \ {idx} :
                   cameras_config'[c].isp[j] = cameras_config[c].isp[j]
             /\ \A d \in Cameras \ {c} : cameras_config'[d] = cameras_config[d]
             /\ ctxs'[<<c, idx>>] =
                   [alloc |-> TRUE, status |-> MMAL_SUCCESS, header |-> NULL,
                    is_header_passed_to_render |-> FALSE]
             /\ \A h \in Handles \ {<<c, idx>>} : ctxs'[h] = ctxs[h]
             /\ last_call'.h = <<c, idx>>
             /\ idx = ncalls[c]]_vars

C12_Witness ==
    /\ last_call.op = "config_camera_frame" /\ last_call.ret = 0
    /\ last_call.h = <<0, NUM_SPLITTER_OUTPUTS - 2>>
    /\ \A j \in 0 .. (NUM_SPLITTER_OUTPUTS - 2) :
          ctxs[<<0, j>>].alloc /\ ctxs[<<0, j>>].header = NULL
    /\ cameras_config[0].is_used
    /\ cameras_config[0].next_output_idx = NUM_SPLITTER_OUTPUTS - 1

\* C13: a capture call on a configured slot whose camera has not been built
\* returns a non-zero value, stores no header in the context, does not block
\* and does not bring the process down.
C13_CaptureBeforeBuild ==
    [][\A h \in Slots :
          (~conn_isps_renders[h] /\ rpigrafx_capture_next_frame(h))
             => /\ ~crashed' /\ waiting' = {}
                /\ last_call'.op = "capture" /\ last_call'.ret # 0
                /\ ctxs'[h].header = NULL]_vars

\* C14: a get_frame call changes neither the context, nor any queue or port,
\* nor the configuration; it returns the data pointer of the held header when
\* a header is held and the status is success, and no pointer when no header
\* is held.
C14_GetFrameNoSideEffects ==
    [][\A h \in Slots :
          rpigrafx_get_frame(h)
             => /\ UNCHANGED <<ctxs, bufVars, cfgVars, waiting, crashed>>
                /\ last_call'.op = "get"
                /\ (ctxs[h].header # NULL /\ ctxs[h].status = MMAL_SUCCESS)
                      => last_call'.ret = ctxs[h].header
                /\ ctxs[h].header = NULL => last_call'.ret = NULL]_vars

C14_Witness ==
    \E h \in Slots :
        /\ last_call.op = "get" /\ last_call.h = h
        /\ last_call.ret # NULL /\ last_call.ret = ctxs[h].header
        /\ nsent[h] = 0 /\ nfreed[h] = 0

\* C15: a free_frame call returns 0; it changes nothing when the context holds
\* no header or the held header has been sent to render; otherwise it releases
\* the held header to the pool exactly once and clears the context, so that a
\* second call in a row changes nothing.
C15_ReleaseIdempotent ==
    [][\A h \in Slots :
          rpigrafx_free_frame(h)
             => /\ last_call'.op = "free" /\ last_call'.ret = 0
                /\ IF ctxs[h].header = NULL \/ nsent[h] >= 1
                   THEN UNCHANGED <<ctxs, bufVars>>
                   ELSE /\ pool_queue'[h] = Append(pool_queue[h], ctxs[h].header)
                        /\ ctxs'[h].header = NULL
                        /\ ~ctxs'[h].is_header_passed_to_render
                        /\ UNCHANGED <<out_port, conn_queue, in_port>>]_vars

\* C16: a render_frame call on a built slot whose context holds no header
\* returns a non-zero value, sends nothing to the render input port, does not
\* set the passed-to-render flag and does not bring the process down.
C16_HandoffNeedsBuffer ==
    [][\A h \in Slots :
          (/\ conn_isps_renders[h] /\ ctxs[h].header = NULL
           /\ rpigrafx_render_frame(h))
             => /\ last_call'.op = "render" /\ last_call'.ret # 0
                /\ ~crashed'
                /\ in_port' = in_port
                /\ ~ctxs'[h].is_header_passed_to_render]_vars

\* C17: a configuration call that leaves a camera with raw acquisition on the
\* dedicated capture port returns an error, and rpigrafx_finish_config never
\* dereferences the camera component that was not created for a raw camera.
C17_RawCaptureRejected ==
    [][/\ \A i \in Cameras :
            (/\ connect_ports_null_camera(cameras_config'[i])
             /\ ~connect_ports_null_camera(cameras_config[i]))
              => last_call'.ret # 0
       /\ (stages = {} /\ stages' # {}) => ~crashed']_vars

\* C18: when rpigrafx_capture_next_frame has returned an error, every header
\* its raw path took from the rawcam's pool or from the splitter's input pool
\* is back on a queue or at a port, so that the next call on the slot finds
\* the headers it needs.
C18_CaptureErrorScoped ==
    \A h \in Slots :
        (last_call.op = "capture" /\ last_call.h = h /\ last_call.ret # 0)
          => /\ rawcam_pool[h[1]].lost = 0
             /\ splitter_pool[h[1]].lost = 0

\* a frame call on slot h takes a step: rpigrafx_capture_next_frame up to its
\* wait or from its wakeup, rpigrafx_free_frame, rpigrafx_render_frame
FrameCallStep(h) ==
    \/ rpigrafx_capture_next_frame(h)
    \/ capture_next_frame_wakeup(h)
    \/ rpigrafx_free_frame(h)
    \/ rpigrafx_render_frame(h)

\* C19: a step of rpigrafx_capture_next_frame, rpigrafx_free_frame or
\* rpigrafx_render_frame on slot h leaves the frame context of every other
\* slot and the four queues of every other slot's isp -> render connection
\* unchanged, whether the other slot is on the same camera or on another one.
C19_SlotIndependence ==
    [][\A h \in Slots :
         FrameCallStep(h) =>
           \A o \in Slots \ {h} :
             /\ ctxs'[o] = ctxs[o]
             /\ pool_queue'[o] = pool_queue[o] /\ out_port'[o] = out_port[o]
             /\ conn_queue'[o] = conn_queue[o] /\ in_port'[o] = in_port[o]]_vars

\* after a capture on one slot and then a capture on another, both slots hold
\* a frame
C19_Witness ==
    \E h \in Slots : \E o \in Slots \ {h} :
        /\ ctxs[h].header # NULL /\ ctxs[o].header # NULL
        /\ last_call.op = "capture" /\ last_call.h = o /\ last_call.ret = 0
        /\ seq.i = SlotCalls

(* -------- the capture calls under fair components -------- *)
\* the handle InitCapture has allocated
CaptureSlots == {<<0, 0>>}

\* the isp fills a header with a payload
isp_fill_nonempty(h) ==
    /\ isp_fill_buffer(h)
    /\ ~is_empty_header(conn_queue'[h][Len(conn_queue'[h])].length)

\* The isp fills every header at its output port, and again and again with a
\* payload while it keeps getting headers; the render returns every header at
\* its input port; a capture call blocked in mmal_queue_wait(conn->queue)
\* runs on when the queue has a header.
FairComponents ==
    \A h \in CaptureSlots :
        /\ WF_vars(isp_fill_buffer(h))
        /\ SF_vars(isp_fill_nonempty(h))
        /\ WF_vars(render_return_buffer(h))
        /\ WF_vars(capture_next_frame_wakeup(h))

SpecCaptureFair == SpecCapture /\ FairComponents

\* C20: on a built slot, with the isp and the render fair, every
\* rpigrafx_capture_next_frame call that has started to wait returns (unless
\* the process has crashed or corrupted a queue before).
C20_CaptureReturns ==
    \A h \in CaptureSlots :
        (waiting = {h} /\ conn_isps_renders[h])
          ~> (waiting = {} \/ crashed \/ Corrupted)

\* the build has returned 0 for every used camera
BuildSucceeded == build_pc.phase = "done" /\ last_call.ret = 0

\* the slots of the used cameras
BuildSlots ==
    {h \in Handles : /\ h[1] \in UsedCameras(cameras_config, num_cameras)
                     /\ h[2] < cameras_config[h[1]].next_output_idx}

\* C21: after rpigrafx_finish_config has returned 0, the output port of every
\* slot's isp and the input port of its render carry the slot's own requested
\* encoding, width and height (the visible size; the buffer size is the
\* requested size rounded up to 32 columns and 16 rows), not the camera-wide
\* maximum.
C21_SlotGeometry ==
    BuildSucceeded =>
      \A h \in BuildSlots :
        LET req == cameras_config[h[1]].isp[h[2]] IN
        \A p \in {<<<<"isp", h[1], h[2]>>, <<"out", 0>>>>,
                  <<<<"render", h[1], h[2]>>, <<"in", 0>>>>} :
          /\ p \in DOMAIN port_format
          /\ port_format[p].encoding = req.encoding
          /\ port_format[p].crop_width = req.width
          /\ port_format[p].crop_height = req.height
          /\ port_format[p].width = 32 * ((req.width + 31) \div 32)
          /\ port_format[p].height = 16 * ((req.height + 15) \div 16)

\* a camera with two slots of different encodings, one of them smaller than
\* the camera-wide maximum in both directions, has been built
C21_Witness ==
    /\ BuildSucceeded
    /\ cameras_config[0].next_output_idx = 2
    /\ cameras_config[0].isp[0].encoding # cameras_config[0].isp[1].encoding
    /\ \E j \in {0, 1} : /\ 0 < cameras_config[0].isp[j].width
                         /\ cameras_config[0].isp[j].width < cameras_config[0].width
                         /\ cameras_config[0].isp[j].height < cameras_config[0].height

\* C22: the passed-to-render flag of a context is set only if the header the
\* context holds has been sent to the render input port; right after every
\* capture call that returned 0 the context holds a header, its status is
\* MMAL_SUCCESS and the flag is clear, whatever happened in earlier cycles.
C22_HandedOffMeansSubmitted ==
    \A h \in Slots : conn_isps_renders[h] =>
        /\ (ctxs[h].is_header_passed_to_render /\ ctxs[h].header # NULL)
              => nsent[h] >= 1
        /\ (last_call.op = "capture" /\ last_call.h = h /\ last_call.ret = 0
              /\ waiting = {})
              => /\ ctxs[h].header # NULL
                 /\ ctxs[h].status = MMAL_SUCCESS
                 /\ ~ctxs[h].is_header_passed_to_render

\* C23: a render_frame call whose mmal_port_send_buffer to the render input
\* port fails returns a non-zero value, leaves the passed-to-render flag
\* clear and the header in the context, where a later free_frame or capture
\* call finds it.
C23_HandoffSendFailure ==
    [][\A h \in Slots :
          (/\ last_call'.op = "render" /\ last_call'.err = "send"
           /\ ctxs[h].header # NULL /\ ~ctxs[h].is_header_passed_to_render
           /\ ctxs[h].status = MMAL_SUCCESS
           /\ rpigrafx_render_frame(h))
            => /\ last_call'.ret # 0
               /\ ~ctxs'[h].is_header_passed_to_render
               /\ ctxs'[h].header = ctxs[h].header
               /\ in_port' = in_port]_vars

\* the components and the connections the build has made for camera i
StagesOf(i) == {c \in stages : c[2] = i}
ConnsOf(i) == {c \in conns : c.id[2] = i}

\* C24: after rpigrafx_finish_config has returned 0, exactly the used cameras
\* have components and connections; a camera that is not raw, with len
\* slots, has one camera, one splitter, len isps, len renders, and a null
\* sink iff it is on its capture port; one tunnelled camera -> splitter
\* connection, len tunnelled splitter -> isp connections, len isp -> render
\* connections with a pool (the only ones with a pool), and one tunnelled
\* preview -> null connection iff it is on its capture port.
C24_GraphStructure ==
    BuildSucceeded =>
      \A i \in Cameras :
        LET cfg == cameras_config[i]
            slots == 0 .. (cfg.next_output_idx - 1)
            dedicated == cfg.use_camera_capture_port
        IN
        /\ (i \in UsedCameras(cameras_config, num_cameras))
              <=> (StagesOf(i) # {} /\ ConnsOf(i) # {})
        /\ (i \notin UsedCameras(cameras_config, num_cameras))
              => (StagesOf(i) = {} /\ ConnsOf(i) = {})
        /\ (i \in UsedCameras(cameras_config, num_cameras) /\ ~cfg.is_rawcam) =>
             /\ StagesOf(i) =
                  {<<"camera", i, 0>>, <<"splitter", i, 0>>}
                    \cup {<<"isp", i, j>> : j \in slots}
                    \cup {<<"render", i, j>> : j \in slots}
                    \cup (IF dedicated THEN {<<"null", i, 0>>} ELSE {})
             /\ ConnsOf(i) =
                  {[id |-> <<"camera_splitter", i, 0>>, flag |-> "TUNNELLING"]}
                    \cup {[id |-> <<"splitter_isp", i, j>>, flag |-> "TUNNELLING"] :
                            j \in slots}
                    \cup {[id |-> <<"isp_render", i, j>>, flag |-> "0"] : j \in slots}
                    \cup (IF dedicated
                          THEN {[id |-> <<"camera_null", i, 0>>, flag |-> "TUNNELLING"]}
                          ELSE {})
             /\ \A h \in Handles :
                  h[1] = i => (conn_isps_renders[h] <=> h[2] \in slots)

\* a capture-port camera with two slots has been built next to a camera that
\* was found and is not used
C24_Witness ==
    /\ BuildSucceeded
    /\ ~cameras_config[0].is_rawcam
    /\ cameras_config[0].use_camera_capture_port
    /\ cameras_config[0].next_output_idx = 2
    /\ num_cameras = 2 /\ ~cameras_config[1].is_used

\* the ports of camera i's components that carry a format once the
\* components are set up
FormattedPorts(cfg, i) ==
    (IF cfg.is_rawcam THEN {<<<<"rawcam", i, 0>>, <<"out", 0>>>>}
     ELSE {<<<<"camera", i, 0>>, <<"out", cfg.camera_output_port_index>>>>})
      \cup {<<<<"splitter", i, 0>>, <<"in", 0>>>>}
      \cup {<<<<"splitter", i, 0>>, <<"out", j>>>> : j \in 0 .. (cfg.next_output_idx - 1)}
      \cup {<<<<"isp", i, j>>, <<"in", 0>>>> : j \in 0 .. (cfg.next_output_idx - 1)}
      \cup {<<<<"isp", i, j>>, <<"out", 0>>>> : j \in 0 .. (cfg.next_output_idx - 1)}
      \cup {<<<<"render", i, j>>, <<"in", 0>>>> : j \in 0 .. (cfg.next_output_idx - 1)}
      \cup (IF cfg.use_camera_capture_port
            THEN {<<<<"null", i, 0>>, <<"in", 1>>>>}
                   \cup (IF cfg.is_rawcam THEN {}
                         ELSE {<<<<"camera", i, 0>>, <<"out", CAMERA_PREVIEW_PORT>>>>})
            ELSE {})

\* a component is enabled by mmal_component_enable, a component held through
\* the wrapper by mmal_wrapper_port_enable on its port
StageEnabled(c) ==
    \/ c \in enabled
    \/ c[1] = "rawcam" /\ rawcam_pool[c[2]] # RawZero
    \/ c[1] = "splitter" /\ cameras_config[c[2]].is_rawcam
         /\ splitter_pool[c[2]] # RawZero

\* the connections connect_ports creates for camera i
ConnIds(cfg, i) ==
    (IF cfg.use_camera_capture_port THEN {<<"camera_null", i, 0>>} ELSE {})
      \cup (IF cfg.is_rawcam THEN {} ELSE {<<"camera_splitter", i, 0>>})
      \cup {<<"splitter_isp", i, j>> : j \in 0 .. (cfg.next_output_idx - 1)}
      \cup {<<"isp_render", i, j>> : j \in 0 .. (cfg.next_output_idx - 1)}

ConnsEnabledOf(i) == {c \in conns_enabled : c[2] = i}

\* stages before connections, creation before enabling, downstream first
StagesThenConnections(i) ==
    LET cfg == cameras_config[i] IN
    /\ ConnsOf(i) # {} =>
         /\ StagesOf(i) = camera_stages(cfg, i)
         /\ FormattedPorts(cfg, i) \subseteq DOMAIN port_format
         /\ \A c \in StagesOf(i) : StageEnabled(c)
    /\ ConnsEnabledOf(i) # {} => {c.id : c \in ConnsOf(i)} = ConnIds(cfg, i)
    /\ \A j \in 0 .. (cfg.next_output_idx - 1) :
         /\ <<"splitter_isp", i, j>> \in conns_enabled
               => <<"isp_render", i, j>> \in conns_enabled
         /\ <<"camera_splitter", i, 0>> \in conns_enabled
               => /\ <<"isp_render", i, j>> \in conns_enabled
                  /\ <<"splitter_isp", i, j>> \in conns_enabled

\* no header of an isp -> render pool is at the isp's output before every
\* connection of the camera is enabled
ConnPoolsSeededLast(i) ==
    (\E h \in Handles : h[1] = i /\ out_port[h] # <<>>)
        => ConnsEnabledOf(i) = ConnIds(cameras_config[i], i)

\* no header of the rawcam's pool is at the rawcam's output before every
\* connection of the camera is enabled
RawPoolSeededLast(i) ==
    rawcam_pool[i].port > 0 => ConnsEnabledOf(i) = ConnIds(cameras_config[i], i)

\* C25 (as claimed): for every camera, every stage is created, formatted and
\* enabled before the first connection is created, every connection is
\* created before the first is enabled, each slot's isp -> render connection
\* is enabled before its splitter -> isp connection and both before the
\* camera -> splitter connection, and no pool header is sent to a producing
\* port before every connection of the camera is enabled.
C25_BuildOrdering ==
    \A i \in CallCameras :
        /\ StagesThenConnections(i)
        /\ ConnPoolsSeededLast(i)
        /\ RawPoolSeededLast(i)

\* C25 (amended): the same ordering of stages and connections, and no header
\* of a connection's pool is sent before every connection of the camera is
\* enabled; the pool of a raw camera's rawcam is sent to the rawcam's output
\* while the rawcam is set up, before the first connection is created.
C25_BuildOrderingConnPools ==
    \A i \in CallCameras :
        /\ StagesThenConnections(i)
        /\ ConnPoolsSeededLast(i)
        /\ (cameras_config[i].is_rawcam /\ ConnsOf(i) # {})
              => rawcam_pool[i].port = RawPoolSize

\* a raw camera and a camera that is not raw have both been built: their
\* connections are enabled and their pools seeded
C25_Witness ==
    /\ BuildSucceeded
    /\ cameras_config[0].is_rawcam /\ rawcam_pool[0].port = RawPoolSize
    /\ <<"splitter_isp", 0, 0>> \in conns_enabled
    /\ out_port[<<0, 0>>] # <<>>
    /\ cameras_config[1].is_used /\ ~cameras_config[1].is_rawcam
    /\ <<"camera_splitter", 1, 0>> \in conns_enabled
    /\ out_port[<<1, 0>>] # <<>>

\* C26: when rpigrafx_finish_config has returned 0, the queue of every
\* slot's isp -> render pool is empty and every header of the pool has been
\* sent exactly once to the isp's output port.
C26_PoolSeeding ==
    BuildSucceeded =>
      \A h \in BuildSlots :
        /\ conn_isps_renders[h]
        /\ pool_queue[h] = <<>>
        /\ \A b \in Buffers : Count(out_port[h], b) = 1
        /\ Len(out_port[h]) = PoolSize

\* a camera with two slots has been built and both pools are at the isps
C26_Witness ==
    /\ BuildSucceeded
    /\ cameras_config[0].next_output_idx = 2
    /\ Len(out_port[<<0, 0>>]) = PoolSize /\ Len(out_port[<<0, 1>>]) = PoolSize

\* C27: when a call of the build fails (creating a component, committing a
\* format, setting a parameter, enabling, creating or enabling a connection),
\* rpigrafx_finish_config returns a non-zero value, makes no later call of
\* the build, and neither destroys nor disables any component or connection
\* made so far.
C27_BuildFailurePolicy ==
    [][/\ (/\ last_call'.op = "finish_config" /\ last_call'.err # "none"
           /\ finish_config_step)
          => /\ last_call'.ret # 0
             /\ build_pc'.phase = "failed"
             /\ UNCHANGED <<stages, port_format, enabled, conns, conns_enabled,
                            conn_isps_renders, bufVars, rawcam_pool, splitter_pool>>
       /\ build_pc.phase # "failed"]_vars

\* enabling a connection of a two-slot camera has failed: the components and
\* the connections made before are still there
C27_Witness ==
    /\ build_pc.phase = "failed"
    /\ last_call.ret = 1 /\ last_call.err = "conn_enable"
    /\ cameras_config[0].next_output_idx = 2
    /\ <<"isp", 0, 1>> \in enabled
    /\ <<"isp_render", 0, 0>> \in conns_enabled
    /\ <<"splitter_isp", 0, 1>> \notin conns_enabled

\* the ports of the stages all the slots of camera i share: the outputs of
\* the camera or the rawcam, the input of the null sink, the input of the
\* splitter
SharedPorts(i) ==
    {p \in DOMAIN port_format :
       /\ p[1][2] = i
       /\ \/ p[1][1] \in {"camera", "rawcam", "null"}
          \/ p[1][1] = "splitter" /\ p[2][1] = "in"}

\* the requested width or height of slot j
SlotSize(cfg, j, f) == IF f = "width" THEN cfg.isp[j].width ELSE cfg.isp[j].height

\* v is the largest of field f over the slots of cfg
IsMaxOver(cfg, v, f) ==
    /\ \A j \in 0 .. (cfg.next_output_idx - 1) : SlotSize(cfg, j, f) <= v
    /\ \E j \in 0 .. (cfg.next_output_idx - 1) : SlotSize(cfg, j, f) = v

CropPorts(h) ==
    {<<<<"splitter", h[1], 0>>, <<"out", h[2]>>>>,
     <<<<"isp", h[1], h[2]>>, <<"in", 0>>>>} \cap DOMAIN port_format

\* crop is the multiple of w next below or at upstream
CropOf(crop, w, upstream) ==
    /\ crop % w = 0
    /\ upstream - w < crop /\ crop <= upstream
    /\ (crop = upstream) <=> (upstream % w = 0)

\* C29: for a slot of width w > 0 and height h > 0, the crop width on
\* splitter output j and on the input of isp j is w * (W div w) for the
\* upstream width W >= w: a multiple of w with W - w < crop <= W, equal to W
\* exactly when w divides W; likewise for the height.  A request with w = 0
\* is accepted, and the build then divides by zero: it traps, or goes on
\* with the crop 0.
C29_CropArithmetic ==
    /\ \A h \in BuildSlots : \A p \in CropPorts(h) :
         LET cfg == cameras_config[h[1]]
             w == cfg.isp[h[2]].width
             ht == cfg.isp[h[2]].height
         IN /\ (w > 0 /\ cfg.width >= w)
                 => /\ port_format[p].crop_width = w * (cfg.width \div w)
                    /\ CropOf(port_format[p].crop_width, w, cfg.width)
            /\ (ht > 0 /\ cfg.height >= ht)
                 => /\ port_format[p].crop_height = ht * (cfg.height \div ht)
                    /\ CropOf(port_format[p].crop_height, ht, cfg.height)
            /\ w = 0 => port_format[p].crop_width = 0
    /\ (crashed /\ ~connect_ports_null_camera(cameras_config[build_pc.cam]))
          => \E j \in 0 .. (cameras_config[build_pc.cam].next_output_idx - 1) :
                cameras_config[build_pc.cam].isp[j].width = 0

\* a slot whose width does not divide the upstream width has its crop on the
\* splitter output and on the isp input
C29_Witness ==
    /\ cameras_config[0].next_output_idx = 2
    /\ cameras_config[0].isp[0].width > 0
    /\ cameras_config[0].width % cameras_config[0].isp[0].width # 0
    /\ Cardinality(CropPorts(<<0, 0>>)) = 2
    /\ port_format[<<<<"isp", 0, 0>>, <<"in", 0>>>>].crop_width
          < cameras_config[0].width

\* C30: a capture call on a camera on its capture port sets the capture
\* trigger exactly once, before it releases the previous header (a call whose
\* trigger fails returns with the context and the queues untouched) and
\* before it waits; the trigger is not set again when an empty header is
\* discarded and the wait is repeated; a capture call on a camera on its
\* preview port never sets it.
C30_TriggerArming ==
    [][\A h \in Slots :
          /\ (/\ waiting = {} /\ ~crashed'
              /\ (waiting' = {h} \/ last_call'.op = "capture")
              /\ rpigrafx_capture_next_frame(h))
               => /\ narmed' = IF cameras_config[h[1]].use_camera_capture_port
                               THEN 1 ELSE 0
                  /\ (last_call'.err = "trigger" /\ waiting' = {})
                        => /\ narmed' = 1
                           /\ UNCHANGED <<ctxs, bufVars, nfreed>>
          /\ (waiting = {h} /\ capture_next_frame_wakeup(h))
               => narmed' = narmed]_vars

\* a capture call on a capture-port camera has set the trigger once, has
\* discarded an empty header and waits again
C30_Witness ==
    /\ narmed = 1
    /\ retries >= 1
    /\ waiting # {}
    /\ \A h \in waiting : cameras_config[h[1]].use_camera_capture_port

\* the capture call on slot h starts a wait on the slot's conn->queue: it
\* enters its first wait, or it has taken an empty header and waits again
StartsWait(h) ==
    /\ waiting' = {h} /\ raw_wait' = "none"
    /\ \/ waiting = {} /\ rpigrafx_capture_next_frame(h)
       \/ waiting = {h} /\ capture_next_frame_wakeup(h)

\* C31: every time a capture call starts a wait on the slot's conn->queue
\* (the first wait, and each wait repeated after an empty header was
\* discarded), the queue of the connection's pool is empty and every header
\* that was on it has been sent to the isp's output port.
C31_PoolRefill ==
    [][\A h \in Slots :
          StartsWait(h) =>
             /\ pool_queue'[conn_of(h)] = <<>>
             /\ \A b \in Buffers :
                  Count(pool_queue[conn_of(h)], b) >= 1
                     => Count(out_port'[conn_of(h)], b) >= 1
             /\ Len(out_port'[conn_of(h)]) >= Len(out_port[conn_of(h)])
                                                + Len(pool_queue[conn_of(h)])]_vars

\* a call waits again after an empty header, and the whole pool but the
\* header at the render is back at the isp's output
C31_Witness ==
    /\ waiting # {} /\ retries >= 1
    /\ \E h \in waiting : /\ pool_queue[conn_of(h)] = <<>>
                          /\ Len(out_port[conn_of(h)]) = PoolSize

\* the headers of a pool, wherever they are
PoolTotal(rp) == rp.queue + rp.port + rp.lost

\* C32: in one capture call on a raw camera, every raw header that carries
\* only side information is released and the pull is repeated; exactly one
\* full raw header is converted; that header is released before the converted
\* frame is sent (a failing send to the splitter finds it released); exactly
\* one converted header, flagged end-of-stream, is sent to the splitter's
\* input port before the wait on the slot's conn->queue begins.
C32_RawCapturePath ==
    [][\A h \in Slots :
          (/\ cameras_config[h[1]].is_rawcam /\ waiting = {}
           /\ raw_path' # NoRawPath
           /\ rpigrafx_capture_next_frame(h))
            => /\ (waiting' = {h} /\ raw_wait' = "none")
                    => /\ raw_path'.converted = 1
                       /\ raw_path'.raw_released
                       /\ raw_path'.injected = 1 /\ raw_path'.eos
                       /\ splitter_pool'[h[1]].port = splitter_pool[h[1]].port + 1
                       /\ splitter_pool'[h[1]].queue = splitter_pool[h[1]].queue - 1
                       /\ rawcam_pool'[h[1]].lost = rawcam_pool[h[1]].lost
                       /\ rawcam_pool'[h[1]].queue = 1
                       /\ PoolTotal(rawcam_pool'[h[1]]) = PoolTotal(rawcam_pool[h[1]])
               /\ (last_call'.err = "send_splitter" /\ waiting' = {})
                    => /\ raw_path'.raw_released /\ raw_path'.injected = 0
                       /\ rawcam_pool'[h[1]].lost = rawcam_pool[h[1]].lost
               /\ raw_path'.injected <= raw_path'.converted
               /\ raw_path'.converted <= 1]_vars

\* the call has released a side-information header, converted one frame,
\* sent it to the splitter and waits on the slot's conn->queue
C32_Witness ==
    /\ waiting # {} /\ raw_wait = "none"
    /\ raw_path.sideinfo >= 1
    /\ raw_path.converted = 1 /\ raw_path.injected = 1 /\ raw_path.eos
    /\ \E h \in waiting : /\ cameras_config[h[1]].is_rawcam
                          /\ splitter_pool[h[1]].port = 1
                          /\ rawcam_pool[h[1]].queue = 1

(* ---------------- C33 ---------------- *)
\* the two port fields of one camera agree
port_fields_agree(cfg) ==
    /\ cfg.use_camera_capture_port <=> cfg.camera_output_port_index = CAMERA_CAPTURE_PORT
    /\ ~cfg.use_camera_capture_port <=> cfg.camera_output_port_index = CAMERA_PREVIEW_PORT

\* C33: in every reachable state each camera's use_camera_capture_port is
\* true exactly when its camera_output_port_index is the capture port (2) and
\* false exactly when it is the preview port (0); a call of
\* rpigrafx_config_camera_port with an unknown port value returns an error and
\* leaves both fields unchanged; and after an initialization (an init call made
\* with the counter at 0) every camera is on the preview port.
C33_PortFieldsConsistent ==
    /\ [](\A i \in Cameras : port_fields_agree(cameras_config[i]))
    /\ [][/\ (/\ last_call'.err = "port"
              /\ \E i \in CallCameras :
                   rpigrafx_config_camera_port(i, "UNKNOWN"))
             => /\ last_call'.ret # 0
                /\ \A i \in Cameras :
                     /\ cameras_config'[i].camera_output_port_index
                          = cameras_config[i].camera_output_port_index
                     /\ cameras_config'[i].use_camera_capture_port
                          = cameras_config[i].use_camera_capture_port
          /\ (/\ called = 0 /\ called' = 1
              /\ \E query \in InfoOutcomes, n \in CameraCounts :
                   priv_rpigrafx_mmal_init(query, n))
             => \A i \in Cameras :
                  /\ cameras_config'[i].camera_output_port_index = CAMERA_PREVIEW_PORT
                  /\ ~cameras_config'[i].use_camera_capture_port
          /\ \A i \in CallCameras :
               /\ (/\ last_call'.op = "config_camera_port"
                   /\ last_call'.h[1] = i /\ last_call'.ret = 0
                   /\ rpigrafx_config_camera_port(i, "CAPTURE"))
                  => cameras_config'[i].camera_output_port_index = CAMERA_CAPTURE_PORT
               /\ (/\ last_call'.op = "config_camera_port"
                   /\ last_call'.h[1] = i /\ last_call'.ret = 0
                   /\ rpigrafx_config_camera_port(i, "PREVIEW"))
                  => cameras_config'[i].camera_output_port_index = CAMERA_PREVIEW_PORT
         ]_vars

\* a camera on the capture port was just refused an unknown port value
C33_Witness ==
    /\ last_call.op = "config_camera_port" /\ last_call.err = "port"
    /\ cameras_config[last_call.h[1]].use_camera_capture_port
    /\ cameras_config[last_call.h[1]].camera_output_port_index = CAMERA_CAPTURE_PORT

(* ---------------- C34 ---------------- *)
\* the state in which the caller sets the render regions and then calls
\* rpigrafx_finish_config: camera 0 with two slots, camera 1 with one
InitRender ==
    LET reqs == [k \in 1 .. 2 |-> [width |-> HwMaxWidth, height |-> HwMaxHeight,
                                   encoding |-> MMAL_ENCODING_RGB24]]
        cfg(i) == BuildCfg(i, reqs, "PREVIEW", FALSE, TRUE)
    IN
      /\ called = 1
      /\ num_cameras = 2
      /\ cameras_config = [i \in Cameras |-> cfg(i)]
      /\ stages = {}
      /\ conn_isps_renders = [h \in Handles |-> FALSE]
      /\ ctxs = [h \in Handles |->
                   IF h[2] < cfg(h[1]).next_output_idx THEN NewCtx ELSE NoCtx]
      /\ pool_queue = EmptyQueues /\ out_port = EmptyQueues
      /\ conn_queue = EmptyQueues /\ in_port = EmptyQueues
      /\ waiting = {}
      /\ crashed = FALSE /\ faulted = FALSE
      /\ rawcam_pool = [i \in Cameras |-> RawZero]
      /\ splitter_pool = [i \in Cameras |-> RawZero]
      /\ raw_wait = "none"
      /\ raw_path = NoRawPath
      /\ narmed = 0
      /\ build_pc = BuildIdle /\ port_format = <<>>
      /\ enabled = {} /\ conns = {} /\ conns_enabled = {} /\ display_region = <<>>
      /\ last_call = NoCall
      /\ nsent = [h \in Handles |-> 0]
      /\ nfreed = [h \in Handles |-> 0]
      /\ retries = 0
      /\ ncalls = [i \in Cameras |-> cfg(i).next_output_idx]
      /\ seq = SeqAny

NextRender ==
    \/ \E a \in RenderArgs, fcp \in Handles :
         rpigrafx_config_camera_frame_render(a.is_fullscreen, a.x, a.y, a.width,
                                             a.height, a.layer, fcp)
    \/ finish_config_next_camera
    \/ finish_config_step

SpecRender == InitRender /\ [][NextRender]_vars

\* cfg with the region of slot j blanked: everything a call on slot j must
\* leave alone
except_region(cfg, j) == [cfg EXCEPT !.render[j].region = RegionZero]

\* C34: rpigrafx_config_camera_frame_render changes only the render region of
\* the slot its handle names: the regions of the other slots, every slot's
\* width, height and encoding, the camera's port and mode, every frame context
\* and every component stay as they were, and the call returns 0; and the
\* region a render component is given when it is built is the region stored
\* for its slot.
C34_RenderRegionOnly ==
    /\ [][\A a \in RenderArgs, fcp \in Handles :
            rpigrafx_config_camera_frame_render(a.is_fullscreen, a.x, a.y, a.width,
                                                a.height, a.layer, fcp)
            => /\ \A i \in Cameras :
                    IF i = fcp[1]
                    THEN except_region(cameras_config'[i], fcp[2])
                           = except_region(cameras_config[i], fcp[2])
                    ELSE cameras_config'[i] = cameras_config[i]
               /\ cameras_config'[fcp[1]].render[fcp[2]].region
                    = display_region_of(a.is_fullscreen, a.x, a.y, a.width,
                                        a.height, a.layer)
               /\ ctxs' = ctxs /\ stages' = stages /\ stages = {}
               /\ UNCHANGED <<bufVars, buildVars, rawVars>>
               /\ last_call'.ret = 0]_vars
    /\ [](\A r \in DOMAIN display_region :
            /\ r \in stages /\ r[1] = "render"
            /\ display_region[r] = cameras_config[r[2]].render[r[3]].region)

\* both slots of camera 0 got different regions, camera 1's slot none, and
\* the three renders were built with them
C34_Witness ==
    /\ build_pc.phase = "done"
    /\ DOMAIN display_region = {<<"render", 0, 0>>, <<"render", 0, 1>>,
                                <<"render", 1, 0>>}
    /\ display_region[<<"render", 0, 0>>].fullscreen
    /\ display_region[<<"render", 0, 1>>].x = 1
    /\ display_region[<<"render", 1, 0>>] = RegionZero

(* ---------------- C35 ---------------- *)
\* the tables hold what a successful camera_info query stores
inventory_obtained(n, cfgs) ==
    /\ n > 0
    /\ \A i \in Cameras :
         i < n => /\ cfgs[i].max_width = HwMaxWidth
                  /\ cfgs[i].max_height = HwMaxHeight

\* the values priv_rpigrafx_mmal_finalize leaves in a table entry
is_sentinel(cfg) ==
    /\ cfg.width = -1 /\ cfg.height = -1
    /\ cfg.max_width = -1 /\ cfg.max_height = -1
    /\ cfg.next_output_idx = 0

\* C35: under nested init/finalize calls the inventory query and the reset of
\* the per-camera configuration run only on an init call made with the call
\* counter at 0; the reset to the sentinel values (width, height, maximum
\* dimensions -1, slot count 0) runs only on the finalize call that takes the
\* counter from 1 to 0; inner init/finalize calls change no camera
\* configuration; and an init call returns 0 only if the inventory was
\* obtained.
C35_InventoryLifecycle ==
    [][/\ (/\ called' = called + 1
           /\ \E query \in InfoOutcomes, n \in CameraCounts :
                priv_rpigrafx_mmal_init(query, n))
          => /\ called # 0 => /\ cameras_config' = cameras_config
                              /\ num_cameras' = num_cameras
             /\ called >= 0 /\ last_call'.ret = 0
                  => inventory_obtained(num_cameras', cameras_config')
       /\ (called' = called - 1 /\ priv_rpigrafx_mmal_finalize)
          => /\ called # 1 => /\ cameras_config' = cameras_config
                              /\ num_cameras' = num_cameras
             /\ called = 1 => \A i \in Cameras : is_sentinel(cameras_config'[i])
      ]_vars

(* ---------------- C36 ---------------- *)
\* C36: a config_camera_frame call that returns non-zero, on any of its
\* failure paths (camera number, width or height, too many outputs, failed
\* allocation of the context), leaves the camera's output count, its stored
\* outputs and its is_used flag as they were before the call; so
\* rpigrafx_finish_config builds no isp and no render for an output for which
\* no context was allocated.
C36_FailedRequestNoChange ==
    [][/\ \A c \in CameraNumbers \cap Cameras :
            (/\ last_call'.op = "config_camera_frame" /\ last_call'.ret # 0
             /\ last_call'.h[1] = c
             /\ \E w \in Widths, hh \in Heights, e \in Encodings,
                   z \in ZeroCopyFlags :
                  rpigrafx_config_camera_frame(c, w, hh, e, z))
            => /\ cameras_config'[c].next_output_idx
                    = cameras_config[c].next_output_idx
               /\ cameras_config'[c].isp = cameras_config[c].isp
               /\ cameras_config'[c].is_used = cameras_config[c].is_used
       /\ \A s \in stages' :
            s[1] \in {"isp", "render"} => ctxs'[<<s[2], s[3]>>].alloc]_vars

(* ---------------- C37 ---------------- *)
\* C37: the status of every frame context is MMAL_SUCCESS in every reachable
\* state (it is set when the context is allocated and no call writes it
\* again), so rpigrafx_get_frame never returns NULL for a held header because
\* of the status and rpigrafx_render_frame never returns its status error.
C37_StatusAlwaysSuccess ==
    /\ [](\A h \in Handles : ctxs[h].status = MMAL_SUCCESS)
    /\ [][\A h \in Slots :
            /\ (last_call'.op = "get" /\ last_call'.h = h /\ rpigrafx_get_frame(h))
               => (ctxs[h].header # NULL => last_call'.ret # NULL)
            /\ (last_call'.op = "render" /\ last_call'.h = h
                  /\ rpigrafx_render_frame(h))
               => last_call'.ret # 1]_vars

\* a send to the render has failed, and the context, still with status
\* success, gave the caller its frame afterwards
C37_Witness ==
    /\ faulted
    /\ last_call.op = "get" /\ last_call.ret # NULL
    /\ ctxs[last_call.h].alloc
    /\ ctxs[last_call.h].status = MMAL_SUCCESS

(* ---------------- C38 ---------------- *)
\* C38: a capture call on a camera on its capture port whose trigger cannot be
\* set returns non-zero without releasing the header the context holds,
\* without taking from or adding to any queue or port, and with the context
\* as it was; a get_frame call that follows returns the data of the frame
\* held before.
C38_TriggerFailureKeepsFrame ==
    [][\A h \in Slots :
          /\ (/\ last_call'.op = "capture" /\ last_call'.err = "trigger"
              /\ last_call'.h = h /\ waiting = {}
              /\ waiting' = {} /\ ~crashed'
              /\ rpigrafx_capture_next_frame(h))
             => /\ cameras_config[h[1]].use_camera_capture_port
                /\ last_call'.ret # 0
                /\ ctxs' = ctxs /\ nfreed' = nfreed
                /\ UNCHANGED <<bufVars, rawVars>>
                /\ get_frame_result(ctxs'[h]) = ctxs[h].header
          /\ (/\ last_call.op = "capture" /\ last_call.err = "trigger"
              /\ last_call.h = h /\ last_call'.op = "get"
              /\ rpigrafx_get_frame(h))
             => last_call'.ret = ctxs[h].header]_vars

\* the trigger failed while the context held a frame that had not been
\* handed to the render, and the frame is still held
C38_Witness ==
    /\ last_call.op = "capture" /\ last_call.err = "trigger"
    /\ waiting = {}
    /\ ctxs[last_call.h].header # NULL
    /\ ~ctxs[last_call.h].is_header_passed_to_render
    /\ nfreed[last_call.h] = 0

(* ---------------- C39 ---------------- *)
\* the build of camera i is complete: its components are created, formatted
\* and enabled, its connections created and enabled, and the pool of every
\* slot has been sent to the isp's output port
CameraBuilt(i) ==
    LET cfg == cameras_config[i] IN
    /\ StagesOf(i) = camera_stages(cfg, i)
    /\ FormattedPorts(cfg, i) \subseteq DOMAIN port_format
    /\ \A c \in StagesOf(i) : StageEnabled(c)
    /\ {c.id : c \in ConnsOf(i)} = ConnIds(cfg, i)
    /\ ConnsEnabledOf(i) = ConnIds(cfg, i)
    /\ \A j \in 0 .. (cfg.next_output_idx - 1) :
         /\ conn_isps_renders[<<i, j>>]
         /\ pool_queue[<<i, j>>] = <<>>
         /\ Len(out_port[<<i, j>>]) = PoolSize

\* nothing of camera i has been made
CameraUntouched(i) ==
    /\ StagesOf(i) = {} /\ ConnsOf(i) = {} /\ ConnsEnabledOf(i) = {}
    /\ \A p \in DOMAIN port_format : p[1][2] # i

\* C39: rpigrafx_finish_config builds the used cameras in increasing index
\* order and stops at the first failure: while camera i is being built, and
\* when its build has failed, every used camera with a smaller index is
\* completely built, connected and seeded, and no component and no connection
\* of a used camera with a greater index exists.
C39_BuildInIndexOrder ==
    /\ build_pc.phase \in {"run", "failed"} =>
         \A k \in UsedCameras(cameras_config, num_cameras) :
           /\ k < build_pc.cam => CameraBuilt(k)
           /\ k > build_pc.cam => CameraUntouched(k)
    /\ build_pc.phase = "failed" =>
         /\ last_call.op = "finish_config" /\ last_call.ret # 0
         /\ build_pc.cam \in UsedCameras(cameras_config, num_cameras)
         /\ ~CameraBuilt(build_pc.cam)

\* the build of camera 1 has failed after camera 0 was built
C39_Witness ==
    /\ build_pc.phase = "failed" /\ build_pc.cam = 1
    /\ UsedCameras(cameras_config, num_cameras) = {0, 1}
    /\ CameraBuilt(0)
    /\ StagesOf(1) # {}

====
